---- MODULE Spec2Model ----
(***************************************************************************)
(* A model of the 'smpl' discrete event simulation subsystem               *)
(* (src/src/simulation_smpl/smpl.py): the Smpl engine with its time queue, *)
(* descriptor pool and facilities, and the drivers of src/test/test.py.    *)
(***************************************************************************)
EXTENDS Integers, Sequences, FiniteSets, TLC

VARIABLES
    clock,                        \* Smpl._clock
    start,                        \* Smpl._start
    last_dispatched_event_code,   \* Smpl._last_dispatched_event_code
    last_dispatched_token,        \* Smpl._last_dispatched_token
    event_queue,                  \* the list headed by Smpl._event_queue_head
    available_event_pool,         \* the list headed by Smpl._available_event_pool_head
    facilities,                   \* Smpl._facilities: identifier -> FacilityData
    next_block_number,            \* Smpl._next_block_number
    trace_enabled,                \* Smpl._trace_enabled
    model_name,                   \* Smpl._model_name
    next_random_number_stream,    \* Smpl._next_random_number_stream
    rand,                         \* Smpl._rand: the generator's _seed and _normal_z2
    op,                           \* the call made by the last step, with its arguments
    ret,                          \* what that call returned or raised
    nops,                         \* number of calls made so far
    drv,                          \* the test driver's configuration and position
    log,                          \* the test driver's log list
    history,                      \* what an observer of the calls has measured
    heap                          \* the descriptors as linked nodes

engineVars == <<clock, start, last_dispatched_event_code, last_dispatched_token,
                event_queue, available_event_pool, facilities, next_block_number,
                trace_enabled, model_name, next_random_number_stream, rand>>

vars == <<clock, start, last_dispatched_event_code, last_dispatched_token,
          event_queue, available_event_pool, facilities, next_block_number,
          trace_enabled, model_name, next_random_number_stream, rand,
          op, ret, nops, drv, log, history, heap>>

----------------------------------------------------------------------------
(* Bounds of the model. *)

\* calls in one behaviour of Spec, the whole interface from construction
MaxOps == 3

\* calls in one behaviour of SpecInit, initializations and uses of the generator
MaxInitOps == 18

\* calls made by the caller of SpecLinked
MaxLinkedOps == 3

\* calls made by the caller of SpecStale
MaxStaleOps == 4

\* calls of stream and seed in one behaviour of SpecRand
MaxSeedings == 2

\* draws (ranf, uniform, random, normal) in one behaviour of SpecRand
MaxDraws == 3

\* calls an arbitrary caller makes in one behaviour of SpecFac, after init()
\* and facility()
MaxFacOps == 4

\* latest arrival of a token of the test drivers, in whole time units
MaxArrival == 2

\* longest time a token of the test drivers holds a server, in whole time units
MaxHold == 2

\* tokens handed to the engine
Tokens == {1, 2}

\* priorities handed to request() and preempt()
Priorities == {0, 1}

\* event codes handed to the engine
Codes == {1, 2}

\* server counts handed to facility()
ServerCounts == {1, 2}

----------------------------------------------------------------------------
(* Values. *)

RESERVED == 0
QUEUED == 1

\* Python's None where a token is expected; tokens are positive.
NoToken == 0

\* Python's None where a facility identifier is expected; block numbers are not negative.
NoHandle == -1

\* the model name None
NoName == "None"

(* Times are IEEE doubles in the code.  A time is modelled as a number of   *)
(* quanta: one quantum is the 1.0e-99 of preempt(), Unit quanta are 1.0.    *)
(* A double of magnitude 1.0 or more absorbs a 1.0e-99 added to it, so a    *)
(* value of Unit or more is always a multiple of Unit; values below Unit    *)
(* are multiples of 1.0e-99.                                                *)
Unit == 8

Tiny == 1

\* float('inf'), above every finite time of the model
Inf == 1048576

\* float('nan'); it is not below 0.0, as no comparison with it holds
NaN == 2097153

\* math.isinf
isinf(x) == x = Inf \/ x = -Inf

\* math.isnan
isnan(x) == x = NaN

FAdd(a, b) == IF a + b >= Unit THEN ((a + b) \div Unit) * Unit ELSE a + b

FSub(a, b) == IF a >= Unit /\ b < Unit /\ b >= 0 THEN a ELSE a - b

FMul(n, x) == IF n * x >= Unit THEN ((n * x) \div Unit) * Unit ELSE n * x

Min(s) == CHOOSE x \in s : \A y \in s : x <= y

InsertAt(q, p, e) == SubSeq(q, 1, p - 1) \o <<e>> \o SubSeq(q, p, Len(q))

RemoveAt(q, p) == SubSeq(q, 1, p - 1) \o SubSeq(q, p + 1, Len(q))

----------------------------------------------------------------------------
(* Records of the program. *)

EventDescriptor(block_number) ==
    [blk |-> block_number, event_code |-> 0, token |-> NoToken,
     remaining_time_to_event |-> 0, trigger_time |-> 0, priority |-> 0]

FacilityServer(block_number) ==
    [blk |-> block_number, busy_token |-> NoToken, busy_priority |-> 0,
     busy_time |-> 0, release_count |-> 0, total_busy_time |-> 0]

FacilityData(block_number, name, total_servers) ==
    [blk |-> block_number, name |-> name,
     servers |-> [i \in 1..total_servers |-> FacilityServer(block_number + 1 + i)],
     busy_servers |-> 0, event_queue_length |-> 0, queue |-> <<>>,
     queue_exit_count |-> 0, preempt_count |-> 0,
     time_of_last_change |-> 0, total_queueing_time |-> 0]

\* The engine's fields as one value, so that an operation is a function of it.
Engine ==
    [clock |-> clock, start |-> start,
     last_dispatched_event_code |-> last_dispatched_event_code,
     last_dispatched_token |-> last_dispatched_token,
     event_queue |-> event_queue, available_event_pool |-> available_event_pool,
     facilities |-> facilities, next_block_number |-> next_block_number,
     trace_enabled |-> trace_enabled, model_name |-> model_name,
     next_random_number_stream |-> next_random_number_stream,
     rand |-> rand]

\* Rand.DEFAULT_STREAMS: the seeds of streams 1 to 15
DEFAULT_STREAMS ==
    <<1973272912, 747177549, 20464843, 640830765, 1098742207, 78126602,
      84743774, 831312807, 124667236, 1172177002, 1124933064, 1223960546,
      1878892440, 1449793615, 553303732>>

\* Rand.__init__
Rand == [seed |-> 0, normal_z2 |-> 0]

\* Smpl.__init__
Constructed ==
    [clock |-> 0, start |-> 0,
     last_dispatched_event_code |-> 0, last_dispatched_token |-> NoToken,
     event_queue |-> <<>>, available_event_pool |-> <<>>,
     facilities |-> [h \in {} |-> 0], next_block_number |-> 0,
     trace_enabled |-> FALSE, model_name |-> NoName,
     next_random_number_stream |-> 1,
     rand |-> Rand]

\* What a call gives back: the state it leaves and the value it returns or
\* the exception it raises.
Out(S, kind, a, b) == [s |-> S, r |-> [kind |-> kind, a |-> a, b |-> b]]

Returned(S, kind, a, b) == Out(S, kind, a, b)

Raised(S, exception) == Out(S, exception, 0, 0)

----------------------------------------------------------------------------
(* The descriptor pool. *)

\* get_blk handing out the same block again
get_blk_again(S, amount) == [s |-> S, index |-> S.next_block_number]

\* Smpl._get_blk
get_blk(S, amount) ==
    [s |-> [S EXCEPT !.next_block_number = @ + amount], index |-> S.next_block_number]

\* Smpl._get_elm
get_elm(S) ==
    IF S.available_event_pool # <<>>
    THEN [s |-> [S EXCEPT !.available_event_pool = Tail(@)],
          e |-> Head(S.available_event_pool)]
    ELSE LET b == get_blk(S, 1)
         IN  [s |-> b.s, e |-> EventDescriptor(b.index)]

\* Smpl._put_elm
put_elm(S, event_descriptor) ==
    [S EXCEPT !.available_event_pool = <<event_descriptor>> \o @]

----------------------------------------------------------------------------
(* The time queue. *)

\* _enlist_evl with the comparison turned round: the scan stops at the first
\* entry that fires strictly earlier
enlist_evl_position_reversed(q, event_descriptor) ==
    LET earlier == {i \in 1..Len(q) : q[i].trigger_time < event_descriptor.trigger_time}
    IN  IF earlier = {} THEN Len(q) + 1 ELSE Min(earlier)

\* _enlist_evl with >= for >: the new entry goes ahead of its ties
enlist_evl_position_ties_first(q, event_descriptor) ==
    LET later == {i \in 1..Len(q) : q[i].trigger_time >= event_descriptor.trigger_time}
    IN  IF later = {} THEN Len(q) + 1 ELSE Min(later)

\* Smpl._enlist_evl: the scan stops at the first entry that fires strictly later.
enlist_evl_position(q, event_descriptor) ==
    LET later == {i \in 1..Len(q) : q[i].trigger_time > event_descriptor.trigger_time}
    IN  IF later = {} THEN Len(q) + 1 ELSE Min(later)

\* _enlist_evl without the scan: the new entry goes to the tail
enlist_evl_appends(S, event_descriptor) ==
    [S EXCEPT !.event_queue = Append(@, event_descriptor)]

\* Smpl._enlist_evl: the entry is linked in at the position the scan stops at
enlist_evl(S, event_descriptor) ==
    [S EXCEPT !.event_queue =
        InsertAt(@, enlist_evl_position(@, event_descriptor), event_descriptor)]

\* schedule taking the delay for the time of the event
schedule_absolute(S, event_code, time_to_event, token) ==
    IF time_to_event < 0 \/ isinf(time_to_event) \/ isnan(time_to_event)
    THEN Raised(S, "ValueError")
    ELSE IF token = NoToken THEN Raised(S, "ValueError")
    ELSE
        LET g == get_elm(S)
            e == [g.e EXCEPT !.event_code = event_code,
                             !.token = token,
                             !.remaining_time_to_event = 0,
                             !.trigger_time = time_to_event]
            S1 == enlist_evl(g.s, e)
        IN  IF S.trace_enabled THEN Raised(S1, "TypeError")
            ELSE Returned(S1, "None", 0, 0)

\* schedule taking any delay
schedule_any_delay(S, event_code, time_to_event, token) ==
    IF token = NoToken THEN Raised(S, "ValueError")
    ELSE
        LET g == get_elm(S)
            e == [g.e EXCEPT !.event_code = event_code,
                             !.token = token,
                             !.remaining_time_to_event = 0,
                             !.trigger_time = FAdd(S.clock, time_to_event)]
            S1 == enlist_evl(g.s, e)
        IN  IF S.trace_enabled THEN Raised(S1, "TypeError")
            ELSE Returned(S1, "None", 0, 0)

\* Smpl.schedule; a delay is a number of quanta, negative for a negative float
schedule(S, event_code, time_to_event, token) ==
    IF time_to_event < 0 \/ isinf(time_to_event) \/ isnan(time_to_event)
    THEN Raised(S, "ValueError")
    ELSE IF token = NoToken THEN Raised(S, "ValueError")
    ELSE
        LET g == get_elm(S)
            e == [g.e EXCEPT !.event_code = event_code,
                             !.token = token,
                             !.remaining_time_to_event = 0,
                             !.trigger_time = FAdd(S.clock, time_to_event)]
            S1 == enlist_evl(g.s, e)
        IN  IF S.trace_enabled THEN Raised(S1, "TypeError")
            ELSE Returned(S1, "None", 0, 0)

\* cause that records the event dispatched but leaves the clock alone
cause_keeps_clock(S) ==
    IF S.event_queue # <<>>
    THEN LET d == Head(S.event_queue)
             S1 == [S EXCEPT !.event_queue = Tail(@),
                             !.last_dispatched_event_code = d.event_code,
                             !.last_dispatched_token = d.token]
             S2 == put_elm(S1, d)
         IN  IF S.trace_enabled THEN Raised(S2, "TypeError")
             ELSE Returned(S2, "pair", d.event_code, d.token)
    ELSE Returned(S, "None", 0, 0)

\* Smpl.cause
cause(S) ==
    IF S.event_queue # <<>>
    THEN LET d == Head(S.event_queue)
             S1 == [S EXCEPT !.event_queue = Tail(@),
                             !.last_dispatched_event_code = d.event_code,
                             !.last_dispatched_token = d.token,
                             !.clock = d.trigger_time]
             S2 == put_elm(S1, d)
         IN  IF S.trace_enabled THEN Raised(S2, "TypeError")
             ELSE Returned(S2, "pair", d.event_code, d.token)
    ELSE Returned(S, "None", 0, 0)

\* The first of the positions that match, or 0: the scans of remevent,
\* unschedule and _suspend start at the head.
FirstMatch(hits) == IF hits = {} THEN 0 ELSE Min(hits)

\* Smpl.remevent: an empty tuple, not None, when no entry has the code
remevent(S, event_code) ==
    LET p == FirstMatch({i \in 1..Len(S.event_queue) :
                            S.event_queue[i].event_code = event_code})
    IN  IF p = 0 THEN Returned(S, "()", 0, 0)
        ELSE IF S.trace_enabled THEN Raised(S, "TypeError")
        ELSE LET d == S.event_queue[p]
                 S1 == [S EXCEPT !.event_queue = RemoveAt(@, p)]
             IN  Returned(put_elm(S1, d), "pair", d.token, d.trigger_time)

\* Smpl.cancel: token_and_time[0] of the empty tuple raises IndexError
cancel(S, event_code) ==
    LET o == remevent(S, event_code)
    IN  IF o.r.kind = "pair" THEN Returned(o.s, "token", o.r.a, 0)
        ELSE IF o.r.kind = "()" THEN Raised(o.s, "IndexError")
        ELSE o

\* unschedule matching on the code alone, as remevent does
unschedule_by_code(S, event_code, token) ==
    LET p == FirstMatch({i \in 1..Len(S.event_queue) :
                            S.event_queue[i].event_code = event_code})
    IN  IF p = 0 THEN Returned(S, "bool", 0, 0)
        ELSE IF S.trace_enabled THEN Raised(S, "TypeError")
        ELSE LET d == S.event_queue[p]
                 S1 == [S EXCEPT !.event_queue = RemoveAt(@, p)]
             IN  Returned(put_elm(S1, d), "bool", 1, 0)

\* Smpl.unschedule
unschedule(S, event_code, token) ==
    LET p == FirstMatch({i \in 1..Len(S.event_queue) :
                            /\ S.event_queue[i].event_code = event_code
                            /\ S.event_queue[i].token = token})
    IN  IF p = 0 THEN Returned(S, "bool", 0, 0)
        ELSE IF S.trace_enabled THEN Raised(S, "TypeError")
        ELSE LET d == S.event_queue[p]
                 S1 == [S EXCEPT !.event_queue = RemoveAt(@, p)]
             IN  Returned(put_elm(S1, d), "bool", 1, 0)

\* _suspend settling for the head of the time queue when no entry has the token
suspend_position_head(S, token) ==
    IF token = NoToken THEN 0
    ELSE LET hits == {i \in 1..Len(S.event_queue) : S.event_queue[i].token = token}
         IN  IF hits # {} THEN Min(hits)
             ELSE IF S.event_queue # <<>> THEN 1 ELSE 0

\* Smpl._suspend: the position of the entry it detaches, 0 when it raises
suspend_position(S, token) ==
    IF token = NoToken THEN 0
    ELSE FirstMatch({i \in 1..Len(S.event_queue) : S.event_queue[i].token = token})

\* Smpl._suspend, given that suspend_position(S, token) > 0
suspend(S, token) ==
    LET p == suspend_position(S, token)
    IN  [s |-> [S EXCEPT !.event_queue = RemoveAt(@, p)], e |-> S.event_queue[p]]

----------------------------------------------------------------------------
(* Facilities. *)

\* _enlist_facility_evq stopping at equal priorities always: last in, first out
enlist_facility_evq_position_lifo(q, event_descriptor) ==
    LET stop == {i \in 1..Len(q) : q[i].priority <= event_descriptor.priority}
    IN  IF stop = {} THEN Len(q) + 1 ELSE Min(stop)

\* _enlist_facility_evq without the test of the remaining time: a preempted
\* entry queues as an ordinary one does
enlist_facility_evq_position_fifo(q, event_descriptor) ==
    LET stop == {i \in 1..Len(q) : q[i].priority < event_descriptor.priority}
    IN  IF stop = {} THEN Len(q) + 1 ELSE Min(stop)

\* Smpl._enlist_facility_evq: the scan stops at the first entry of lower
\* priority, or of equal priority when the new entry is a preempted one.
enlist_facility_evq_position(q, event_descriptor) ==
    LET stop == {i \in 1..Len(q) :
                    \/ q[i].priority < event_descriptor.priority
                    \/ /\ q[i].priority = event_descriptor.priority
                       /\ event_descriptor.remaining_time_to_event > 0}
    IN  IF stop = {} THEN Len(q) + 1 ELSE Min(stop)

\* _enlist_facility_evq without the link to the successor: the entries behind
\* the new one are lost
enlist_facility_evq_unlinked(facility_data, event_descriptor) ==
    [facility_data EXCEPT !.queue =
        Append(SubSeq(@, 1, enlist_facility_evq_position(@, event_descriptor) - 1),
               event_descriptor)]

\* Smpl._enlist_facility_evq: the entry is linked in at the position the scan
\* stops at
enlist_facility_evq(facility_data, event_descriptor) ==
    [facility_data EXCEPT !.queue =
        InsertAt(@, enlist_facility_evq_position(@, event_descriptor), event_descriptor)]

\* Smpl._get_facility: the exception it raises, "" when it returns the facility
get_facility_error(S, facility_identifier) ==
    IF facility_identifier = NoHandle THEN "ValueError"
    ELSE IF facility_identifier \notin DOMAIN S.facilities THEN "KeyError"
    ELSE ""

\* Smpl.facility
facility(S, facility_name, total_servers) ==
    IF facility_name = NoName THEN Raised(S, "ValueError")
    ELSE IF total_servers <= 0 THEN Raised(S, "ValueError")
    ELSE
        LET b == get_blk(S, total_servers + 2)
            new == FacilityData(b.index, facility_name, total_servers)
            S1 == [b.s EXCEPT !.facilities =
                      [h \in DOMAIN @ \cup {b.index} |->
                          IF h = b.index THEN new ELSE @[h]]]
        IN  IF S.trace_enabled THEN Raised(S1, "TypeError")
            ELSE Returned(S1, "handle", b.index, 0)

\* the scan for a server without a holder, keeping the last one found
first_nonbusy_last(facility_data) ==
    CHOOSE i \in DOMAIN facility_data.servers :
        /\ facility_data.servers[i].busy_token = NoToken
        /\ \A j \in DOMAIN facility_data.servers :
               facility_data.servers[j].busy_token = NoToken => j <= i

\* the first server of the facility without a holder (the scans of request and preempt)
first_nonbusy(facility_data) ==
    Min({i \in DOMAIN facility_data.servers :
            facility_data.servers[i].busy_token = NoToken})

\* a server given to a token without being counted
reserve_server_uncounted(facility_data, k, token, priority, now) ==
    [facility_data EXCEPT !.servers[k].busy_token = token,
                          !.servers[k].busy_priority = priority,
                          !.servers[k].busy_time = now]

\* Smpl.request, Smpl.preempt and Smpl.release: 'reserve server k of facility'
reserve_server(facility_data, k, token, priority, now) ==
    [facility_data EXCEPT !.servers[k].busy_token = token,
                          !.servers[k].busy_priority = priority,
                          !.servers[k].busy_time = now,
                          !.busy_servers = @ + 1]

\* enqueue counting the new entry in the time already waited
enqueue_counts_late(S, f, token, priority, event_code, remaining_time_to_event) ==
    LET fd == S.facilities[f]
        fd1 == [fd EXCEPT !.total_queueing_time =
                              FAdd(@, FMul(fd.event_queue_length + 1,
                                           FSub(S.clock, fd.time_of_last_change))),
                          !.event_queue_length = @ + 1,
                          !.time_of_last_change = S.clock]
        g == get_elm(S)
        e == [g.e EXCEPT !.token = token,
                         !.event_code = event_code,
                         !.remaining_time_to_event = remaining_time_to_event,
                         !.priority = priority]
    IN  [g.s EXCEPT !.facilities[f] = enlist_facility_evq(fd1, e)]

\* enqueue leaving the time of the last change as it was
enqueue_keeps_time(S, f, token, priority, event_code, remaining_time_to_event) ==
    LET fd == S.facilities[f]
        fd1 == [fd EXCEPT !.total_queueing_time =
                              FAdd(@, FMul(fd.event_queue_length,
                                           FSub(S.clock, fd.time_of_last_change))),
                          !.event_queue_length = @ + 1]
        g == get_elm(S)
        e == [g.e EXCEPT !.token = token,
                         !.event_code = event_code,
                         !.remaining_time_to_event = remaining_time_to_event,
                         !.priority = priority]
    IN  [g.s EXCEPT !.facilities[f] = enlist_facility_evq(fd1, e)]

\* Smpl._enqueue
enqueue(S, f, token, priority, event_code, remaining_time_to_event) ==
    LET fd == S.facilities[f]
        fd1 == [fd EXCEPT !.total_queueing_time =
                              FAdd(@, FMul(fd.event_queue_length,
                                           FSub(S.clock, fd.time_of_last_change))),
                          !.event_queue_length = @ + 1,
                          !.time_of_last_change = S.clock]
        g == get_elm(S)
        e == [g.e EXCEPT !.token = token,
                         !.event_code = event_code,
                         !.remaining_time_to_event = remaining_time_to_event,
                         !.priority = priority]
    IN  [g.s EXCEPT !.facilities[f] = enlist_facility_evq(fd1, e)]

\* Smpl.request
request(S, f, token, priority) ==
    IF token = NoToken THEN Raised(S, "ValueError")
    ELSE IF get_facility_error(S, f) # "" THEN Raised(S, get_facility_error(S, f))
    ELSE
        LET fd == S.facilities[f]
        IN  IF fd.busy_servers < Len(fd.servers)
            THEN LET S1 == [S EXCEPT !.facilities[f] =
                               reserve_server(fd, first_nonbusy(fd), token, priority, S.clock)]
                 IN  IF S.trace_enabled THEN Raised(S1, "TypeError")
                     ELSE Returned(S1, "int", RESERVED, 0)
            ELSE LET S1 == enqueue(S, f, token, priority, S.last_dispatched_event_code, 0)
                 IN  IF S.trace_enabled THEN Raised(S1, "TypeError")
                     ELSE Returned(S1, "int", QUEUED, 0)

\* Smpl.reserve: request is handed self twice, which Python rejects
reserve(S, f, token, priority) == Raised(S, "TypeError")

\* the scan for the lowest-priority user with <= for <: the last found on ties
lowest_priority_server_last(facility_data) ==
    LET sv == facility_data.servers
    IN  CHOOSE i \in DOMAIN sv :
            /\ \A j \in DOMAIN sv : sv[i].busy_priority <= sv[j].busy_priority
            /\ \A j \in DOMAIN sv : sv[j].busy_priority = sv[i].busy_priority => j <= i

\* Smpl.preempt: the server with the lowest-priority user, the first found on ties
lowest_priority_server(facility_data) ==
    LET sv == facility_data.servers
    IN  Min({i \in DOMAIN sv : \A j \in DOMAIN sv : sv[i].busy_priority <= sv[j].busy_priority})

\* the priority test of preempt with < for <=: an equal priority preempts
not_higher_strict(priority, busy_priority) == priority < busy_priority

\* Smpl.preempt: the requesting token's priority is not higher than that of
\* any user, so the requestor is enqueued
not_higher(priority, busy_priority) == priority <= busy_priority

\* the remaining event time taken from the start of the run, not from now
preempt_time_to_event_whole(trigger_time, now) ==
    IF trigger_time = 0 THEN Tiny ELSE trigger_time

\* the remaining event time as the plain difference, 0 when the event was due
preempt_time_to_event_plain(trigger_time, now) == FSub(trigger_time, now)

\* Smpl.preempt: the remaining event time kept for the preempted token
preempt_time_to_event(trigger_time, now) ==
    IF FSub(trigger_time, now) = 0 THEN Tiny ELSE FSub(trigger_time, now)

\* Smpl.preempt
preempt(S, f, token, priority) ==
    IF token = NoToken THEN Raised(S, "ValueError")
    ELSE IF get_facility_error(S, f) # "" THEN Raised(S, get_facility_error(S, f))
    ELSE
        LET fd == S.facilities[f]
        IN  IF fd.busy_servers < Len(fd.servers)
            THEN IF S.trace_enabled THEN Raised(S, "TypeError")
                 ELSE Returned([S EXCEPT !.facilities[f] =
                                   reserve_server(fd, first_nonbusy(fd), token, priority, S.clock)],
                               "int", RESERVED, 0)
            ELSE
                LET k == lowest_priority_server(fd)
                    chosen == fd.servers[k]
                IN  IF not_higher(priority, chosen.busy_priority)
                    THEN LET S1 == enqueue(S, f, token, priority,
                                           S.last_dispatched_event_code, 0)
                         IN  IF S.trace_enabled THEN Raised(S1, "TypeError")
                             ELSE Returned(S1, "int", QUEUED, 0)
                    ELSE IF S.trace_enabled THEN Raised(S, "TypeError")
                    ELSE IF suspend_position(S, chosen.busy_token) = 0
                    THEN Raised(S, "ValueError")
                    ELSE
                        LET sp == suspend(S, chosen.busy_token)
                            time_to_event ==
                                preempt_time_to_event(sp.e.trigger_time, S.clock)
                            S1 == put_elm(sp.s, sp.e)
                            S2 == enqueue(S1, f, chosen.busy_token, chosen.busy_priority,
                                          sp.e.event_code, time_to_event)
                            fd2 == S2.facilities[f]
                            fd3 == [fd2 EXCEPT
                                      !.servers[k].release_count = @ + 1,
                                      !.servers[k].total_busy_time =
                                          FAdd(@, FSub(S.clock, chosen.busy_time)),
                                      !.busy_servers = @ - 1,
                                      !.preempt_count = @ + 1]
                        IN  Returned([S2 EXCEPT !.facilities[f] =
                                         reserve_server(fd3, k, token, priority, S.clock)],
                                     "int", RESERVED, 0)

\* the first busy server, whoever holds it
matching_server_any(facility_data, token) ==
    LET held == {i \in DOMAIN facility_data.servers :
                    facility_data.servers[i].busy_token # NoToken}
    IN  IF held = {} THEN 0 ELSE Min(held)

\* Smpl.release: the first server held by the token, 0 when there is none
matching_server(facility_data, token) ==
    LET held == {i \in DOMAIN facility_data.servers :
                    facility_data.servers[i].busy_token = token}
    IN  IF held = {} THEN 0 ELSE Min(held)

\* release handing the blocked request to the ordinary insertion
reschedule_at_head_sorted(S, event_descriptor) ==
    enlist_evl(S, [event_descriptor EXCEPT !.trigger_time = S.clock])

\* release dropping the blocked request it has dequeued
reschedule_at_head_lost(S, event_descriptor) == S

\* release putting the blocked request at the head with the time its
\* descriptor had
reschedule_at_head_stale(S, event_descriptor) ==
    [S EXCEPT !.event_queue = <<event_descriptor>> \o @]

\* Smpl.release: a blocked request goes to the head of the event list
reschedule_at_head(S, event_descriptor) ==
    [S EXCEPT !.event_queue =
        <<[event_descriptor EXCEPT !.trigger_time = S.clock]>> \o @]

\* Smpl.release
release(S, f, token) ==
    IF token = NoToken THEN Raised(S, "ValueError")
    ELSE IF get_facility_error(S, f) # "" THEN Raised(S, get_facility_error(S, f))
    ELSE IF matching_server(S.facilities[f], token) = 0 THEN Raised(S, "ValueError")
    ELSE
        LET fd == S.facilities[f]
            k == matching_server(fd, token)
            fd1 == [fd EXCEPT !.servers[k].busy_token = NoToken,
                              !.servers[k].release_count = @ + 1,
                              !.servers[k].total_busy_time =
                                  FAdd(@, FSub(S.clock, fd.servers[k].busy_time)),
                              !.busy_servers = @ - 1]
            S1 == [S EXCEPT !.facilities[f] = fd1]
        IN  IF S.trace_enabled THEN Raised(S1, "TypeError")
            ELSE IF fd1.event_queue_length > 0
            THEN LET d == Head(fd1.queue)
                     time_to_event == d.remaining_time_to_event
                     fd2 == [fd1 EXCEPT
                               !.queue = Tail(@),
                               !.total_queueing_time =
                                   FAdd(@, FMul(fd1.event_queue_length,
                                                FSub(S.clock, fd1.time_of_last_change))),
                               !.event_queue_length = @ - 1,
                               !.queue_exit_count = @ + 1,
                               !.time_of_last_change = S.clock]
                 IN  IF time_to_event = 0
                     THEN Returned(reschedule_at_head([S1 EXCEPT !.facilities[f] = fd2], d),
                                   "None", 0, 0)
                     ELSE LET fd3 == reserve_server(fd2, k, d.token, d.priority, S.clock)
                              e == [d EXCEPT !.trigger_time = FAdd(S.clock, time_to_event)]
                          IN  Returned(enlist_evl([S1 EXCEPT !.facilities[f] = fd3], e),
                                       "None", 0, 0)
            ELSE Returned(S1, "None", 0, 0)

\* reset taking the clock back to the start of the interval
reset_rewinds(S) ==
    Returned(
        [S EXCEPT !.facilities =
                    [h \in DOMAIN @ |->
                        [@[h] EXCEPT !.queue_exit_count = 0,
                                     !.preempt_count = 0,
                                     !.total_queueing_time = 0,
                                     !.servers = [i \in DOMAIN @ |->
                                         [@[i] EXCEPT !.release_count = 0,
                                                      !.total_busy_time = 0]]]],
                  !.clock = S.start],
        "None", 0, 0)

\* reset leaving the start of the interval where it was
reset_keeps_start(S) ==
    Returned(
        [S EXCEPT !.facilities =
                    [h \in DOMAIN @ |->
                        [@[h] EXCEPT !.queue_exit_count = 0,
                                     !.preempt_count = 0,
                                     !.total_queueing_time = 0,
                                     !.servers = [i \in DOMAIN @ |->
                                         [@[i] EXCEPT !.release_count = 0,
                                                      !.total_busy_time = 0]]]]],
        "None", 0, 0)

\* Smpl.reset
reset(S) ==
    Returned(
        [S EXCEPT !.facilities =
                    [h \in DOMAIN @ |->
                        [@[h] EXCEPT !.queue_exit_count = 0,
                                     !.preempt_count = 0,
                                     !.total_queueing_time = 0,
                                     !.servers = [i \in DOMAIN @ |->
                                         [@[i] EXCEPT !.release_count = 0,
                                                      !.total_busy_time = 0]]]],
                  !.start = S.clock],
        "None", 0, 0)

\* stream leaving the carry of normal as it is
stream_keeps_carry(S, stream_number) ==
    IF stream_number < 1 \/ stream_number > 15 THEN Raised(S, "ValueError")
    ELSE Returned([S EXCEPT !.rand.seed = DEFAULT_STREAMS[stream_number]], "None", 0, 0)

\* Rand.stream
stream(S, stream_number) ==
    IF stream_number < 1 \/ stream_number > 15 THEN Raised(S, "ValueError")
    ELSE Returned([S EXCEPT !.rand = [seed |-> DEFAULT_STREAMS[stream_number],
                                      normal_z2 |-> 0]],
                  "None", 0, 0)

\* Rand.seed
seed(S, new_seed) == Returned([S EXCEPT !.rand.seed = new_seed], "None", 0, 0)

\* Rand.A, the multiplier 7^5
A == 16807

\* Rand.M, the modulus 2^31 - 1
M == 2147483647

\* get_short0: the least significant 16 bits of a non-negative integer
get_short0(int_value) == int_value % 65536

\* get_short1: the next 16 bits
get_short1(int_value) == (int_value \div 65536) % 65536

\* set_short1: the integer with its bits 16 to 31 replaced by a 16-bit value
set_short1(int_value, short_value) ==
    (int_value % 65536) + (short_value % 65536) * 65536

\* bit 15 of Hi taken for absent
bit15_dropped(hi) == 0

\* bit 15 of Hi, which ranf adds to K
bit15(hi) == IF get_short0(hi) >= 32768 THEN 1 ELSE 0

\* the seed Rand.ranf stores, from the seed it finds
next_seed(old_seed) ==
    LET hi0 == get_short1(old_seed) * A
        lo0 == set_short1(old_seed, 0) * A
        hi == hi0 + get_short1(lo0)
        lo1 == set_short1(lo0, get_short0(hi) % 32768)
        k == get_short1(hi) * 2 + bit15(hi)
        lo2 == (lo1 - M) + k
    IN  IF lo2 < 0 THEN lo2 + M ELSE lo2

\* Rand.ranf: the value returned is the new seed times 4.656612875E-10, which
\* the result carries as the seed
ranf(S) ==
    Returned([S EXCEPT !.rand.seed = next_seed(@)], "float", next_seed(S.rand.seed), 0)

\* lower > upper, which does not hold when either is NaN
exceeds(lower, upper) == ~isnan(lower) /\ ~isnan(upper) /\ lower > upper

\* uniform drawing before it looks at its boundaries
uniform_draws_first(S, lower, upper) ==
    IF exceeds(lower, upper) THEN Raised(ranf(S).s, "ValueError")
    ELSE ranf(S)

\* Rand.uniform: the value returned is lower + (upper - lower) * ranf(), which
\* the result carries as the draw
uniform(S, lower, upper) ==
    IF exceeds(lower, upper) THEN Raised(S, "ValueError")
    ELSE ranf(S)

\* Rand.random, of two integers: the value returned is
\* lower + int((upper - lower + 1.0) * ranf()), which the result carries as
\* the draw
random(S, lower, upper) ==
    IF lower > upper THEN Raised(S, "ValueError")
    ELSE Returned(ranf(S).s, "int", ranf(S).r.a, 0)

\* Rand.normal draws pairs (v1, v2) = (2 ranf() - 1, 2 ranf() - 1) until
\* w = v1^2 + v2^2 < 1.0. The model knows each draw to 15 bits: a draw of
\* seed s lies in cell s \div 65536 of the 32768 cells of [0, 1), so that
\* 16384 v lies between cell - 16384 and cell - 16383.
cell(a_seed) == (a_seed \div 65536) - 16384

\* the least and the greatest value of (16384 v)^2 over a cell
least_square(c) == IF c \in {-1, 0} THEN 0 ELSE IF c < 0 THEN (c + 1) * (c + 1) ELSE c * c

greatest_square(c) == IF c < 0 THEN c * c ELSE (c + 1) * (c + 1)

\* the outcomes of the test w < 1.0 that the cells of two draws allow: one
\* outcome unless the unit circle passes through the cells
within_unit_circle(seed1, seed2) ==
    {b \in BOOLEAN :
        IF b THEN least_square(cell(seed1)) + least_square(cell(seed2)) <= 16384 * 16384
             ELSE greatest_square(cell(seed1)) + greatest_square(cell(seed2)) >= 16384 * 16384}

\* the pairs of draws one normal call may take
MaxPairs == 3

\* the seeds the loop of Rand.normal may end with, from a seed and at most
\* a number of pairs of draws
RECURSIVE accepted_pair(_, _)
accepted_pair(a_seed, pairs) ==
    IF pairs = 0 THEN {}
    ELSE LET seed1 == next_seed(a_seed)
             seed2 == next_seed(seed1)
         IN  (IF TRUE \in within_unit_circle(seed1, seed2) THEN {seed2} ELSE {})
             \cup (IF FALSE \in within_unit_circle(seed1, seed2)
                   THEN accepted_pair(seed2, pairs - 1) ELSE {})

\* Rand.normal: the outcomes the model allows. The carry v2 * w, which is
\* never 0.0, is stood for by the seed of the draw that gave v2; the value
\* returned is stood for by the carry used or the seed reached.
normal(S) ==
    IF S.rand.normal_z2 # 0
    THEN {Returned([S EXCEPT !.rand.normal_z2 = 0], "float", S.rand.normal_z2, 0)}
    ELSE {Returned([S EXCEPT !.rand = [seed |-> e, normal_z2 |-> e]], "float", e, 0) :
            e \in accepted_pair(S.rand.seed, MaxPairs)}

\* the rotation wrapping one stream early
next_stream_early(stream_number) ==
    IF stream_number + 1 > 14 THEN 1 ELSE stream_number + 1

\* the stream of the next initialization (Smpl.init)
next_stream(stream_number) ==
    IF stream_number + 1 > 15 THEN 1 ELSE stream_number + 1

\* init leaving the descriptor pool as it is
init_keeps_pool(S, name) ==
    IF name = NoName THEN Raised(S, "ValueError")
    ELSE
        LET S1 == [S EXCEPT !.next_block_number = 1,
                            !.event_queue = <<>>,
                            !.facilities = [h \in {} |-> 0],
                            !.clock = 0,
                            !.start = 0,
                            !.last_dispatched_event_code = 0,
                            !.trace_enabled = FALSE,
                            !.model_name = name]
            o == stream(S1, S1.next_random_number_stream)
        IN  IF o.r.kind # "None" THEN o
            ELSE Returned([o.s EXCEPT !.next_random_number_stream = next_stream(@)],
                          "None", 0, 0)

\* Smpl.init; the last dispatched token is not among the fields it sets
init(S, name) ==
    IF name = NoName THEN Raised(S, "ValueError")
    ELSE
        LET S1 == [S EXCEPT !.next_block_number = 1,
                            !.event_queue = <<>>,
                            !.available_event_pool = <<>>,
                            !.facilities = [h \in {} |-> 0],
                            !.clock = 0,
                            !.start = 0,
                            !.last_dispatched_event_code = 0,
                            !.trace_enabled = FALSE,
                            !.model_name = name]
            o == stream(S1, S1.next_random_number_stream)
        IN  IF o.r.kind # "None" THEN o
            ELSE Returned([o.s EXCEPT !.next_random_number_stream = next_stream(@)],
                          "None", 0, 0)

\* Smpl.trace
trace(S, enabled) == Returned([S EXCEPT !.trace_enabled = enabled], "None", 0, 0)

\* Smpl.time
time(S) == S.clock

\* Smpl.status
status(S, f) == S.facilities[f].busy_servers = Len(S.facilities[f].servers)

\* Smpl.inq
inq(S, f) == S.facilities[f].event_queue_length

\* Smpl.U: the total busy times of the first n servers, added up from 0.0
RECURSIVE utilization(_, _)
utilization(servers, n) ==
    IF n = 0 THEN 0
    ELSE FAdd(utilization(servers, n - 1), servers[n].total_busy_time)

\* Smpl.U, for a registered facility: a quotient a / b of two times, or 0.0
U(S, f) ==
    LET time_since_start == FSub(S.clock, S.start)
    IN  IF time_since_start > 0
        THEN [kind |-> "quotient",
              a |-> utilization(S.facilities[f].servers, Len(S.facilities[f].servers)),
              b |-> time_since_start]
        ELSE [kind |-> "float", a |-> 0, b |-> 0]

\* Smpl.B: the releases of the first n servers, added up from 0
RECURSIVE total_releases(_, _)
total_releases(servers, n) ==
    IF n = 0 THEN 0
    ELSE total_releases(servers, n - 1) + servers[n].release_count

\* Smpl.B, for a registered facility: a quotient a / b of the total busy time
\* and the number of releases, or the total busy time when none was released
B(S, f) ==
    LET served == S.facilities[f].servers
        total_busy_time == utilization(served, Len(served))
    IN  IF total_releases(served, Len(served)) > 0
        THEN [kind |-> "quotient", a |-> total_busy_time,
              b |-> total_releases(served, Len(served))]
        ELSE [kind |-> "float", a |-> total_busy_time, b |-> 0]

\* Smpl.Lq, for a registered facility: a quotient a / b of two times, or 0.0
Lq(S, f) ==
    LET time_since_start == FSub(S.clock, S.start)
    IN  IF time_since_start > 0
        THEN [kind |-> "quotient", a |-> S.facilities[f].total_queueing_time,
              b |-> time_since_start]
        ELSE [kind |-> "float", a |-> 0, b |-> 0]

\* Smpl.mname
mname(S) == S.model_name

\* Smpl.fname
fname(S, f) == S.facilities[f].name

\* A query through the interface: time, mname, fname, status, U, B, Lq, inq or
\* its alias qlength. A string is returned as the kind of the result, None as
\* "None".
query(S, name, f) ==
    IF name = "time" THEN Returned(S, "float", time(S), 0)
    ELSE IF name = "mname" THEN Returned(S, mname(S), 0, 0)
    ELSE IF get_facility_error(S, f) # "" THEN Raised(S, get_facility_error(S, f))
    ELSE IF name = "fname" THEN Returned(S, fname(S, f), 0, 0)
    ELSE IF name = "status" THEN Returned(S, "bool", IF status(S, f) THEN 1 ELSE 0, 0)
    ELSE IF name = "Lq" THEN [s |-> S, r |-> Lq(S, f)]
    ELSE IF name = "U" THEN [s |-> S, r |-> U(S, f)]
    ELSE IF name = "B" THEN [s |-> S, r |-> B(S, f)]
    ELSE Returned(S, "int", inq(S, f), 0)

----------------------------------------------------------------------------
(* The engine under any sequence of calls. *)

\* delays handed to schedule(), in quanta: 0.0 and 1.0
Delays == {0, Unit}

\* the delays schedule refuses
BadDelays == {-Unit, -Inf, Inf, NaN}

Call(name, a, b, c) == [name |-> name, a |-> a, b |-> b, c |-> c]

NoDriver == [mode |-> "none"]

(* What the log notes of a call, besides what the tests log: a token made  *)
(* to wait (with the event code dispatched last and the descriptor that    *)
(* carries it), a holder displaced by preempt() (with the time its         *)
(* suspended event was due) and a preempted token given its server back by *)
(* release() (with the time its event is due now).                         *)
LogEntry(kind, token, at, due, code, blk) ==
    [kind |-> kind, token |-> token, at |-> at, due |-> due, code |-> code, blk |-> blk]

Blks(q) == {q[i].blk : i \in 1..Len(q)}

WithBlk(q, b) == q[CHOOSE i \in 1..Len(q) : q[i].blk = b]

(* The descriptors as the nodes the program links: every descriptor has a  *)
(* next field, the time queue, the pool and each facility queue have a     *)
(* head, and the operations assign to these as the code does. With them     *)
(* go the order in which the descriptors were put into the time queue and  *)
(* the blocked requests release has put there that cause has yet to        *)
(* dispatch, in the order they left their facility queue.                  *)

\* None, where a descriptor is expected
NoNode == -1

LinkedNode(event_descriptor, next) == [d |-> event_descriptor, next |-> next]

\* the descriptors reached from head by next, n links at most
RECURSIVE Chain(_, _, _)
Chain(node, head, n) ==
    IF head = NoNode \/ n = 0 THEN <<>>
    ELSE <<head>> \o Chain(node, node[head].next, n - 1)

\* the scans of the program: from the head until next is None
Walk(H, head) == Chain(H.node, head, Cardinality(DOMAIN H.node) + 1)

\* the fields of the descriptors a scan from head passes, in its order
Entries(H, head) ==
    LET w == Walk(H, head) IN [i \in 1..Len(w) |-> H.node[w[i]].d]

HeadOf(q) == IF q = <<>> THEN NoNode ELSE q[1].blk

\* the numbers of a set in ascending order
Ascending(numbers) ==
    [i \in 1..Cardinality(numbers) |->
        CHOOSE b \in numbers : Cardinality({x \in numbers : x < b}) = i - 1]

\* the sequence q without the descriptor b
Without(q, b) ==
    LET keep == Ascending({i \in 1..Len(q) : q[i] # b})
    IN  [k \in 1..Len(keep) |-> q[keep[k]]]

\* the nodes of a specification that does not follow them
Unlinked ==
    [tracked |-> FALSE, node |-> <<>>, evl |-> NoNode, pool |-> NoNode, fq |-> <<>>,
     scheduled |-> <<>>, waiters |-> <<>>]

\* the nodes of an engine whose lists are the sequences of S, which schedule()
\* calls alone have filled, so that the descriptors of the time queue were
\* allocated in the order of the calls
Linked(S) ==
    LET lists == {S.event_queue, S.available_event_pool}
                     \cup {S.facilities[h].queue : h \in DOMAIN S.facilities}
    IN  [tracked |-> TRUE,
         node |-> [b \in UNION {Blks(q) : q \in lists} |->
                       LET q == CHOOSE l \in lists : b \in Blks(l)
                           i == CHOOSE j \in 1..Len(q) : q[j].blk = b
                       IN  LinkedNode(q[i], IF i < Len(q) THEN q[i + 1].blk ELSE NoNode)],
         evl |-> HeadOf(S.event_queue),
         pool |-> HeadOf(S.available_event_pool),
         fq |-> [h \in DOMAIN S.facilities |-> HeadOf(S.facilities[h].queue)],
         scheduled |-> Ascending(Blks(S.event_queue)),
         waiters |-> <<>>]

\* _get_elm handing out the head of the pool without taking it off the pool
linked_get_elm_shared(H, S) ==
    IF H.pool # NoNode
    THEN [h |-> H, e |-> H.pool]
    ELSE LET b == get_blk(S, 1).index
         IN  [h |-> [H EXCEPT !.node =
                        [x \in DOMAIN @ \cup {b} |->
                            IF x = b THEN LinkedNode(EventDescriptor(b), NoNode)
                            ELSE @[x]]],
              e |-> b]

\* Smpl._get_elm on the nodes: the head of the pool, or a new descriptor
linked_get_elm(H, S) ==
    IF H.pool # NoNode
    THEN [h |-> [H EXCEPT !.pool = H.node[H.pool].next,
                          !.node[H.pool].next = NoNode],
          e |-> H.pool]
    ELSE LET b == get_blk(S, 1).index
         IN  [h |-> [H EXCEPT !.node =
                        [x \in DOMAIN @ \cup {b} |->
                            IF x = b THEN LinkedNode(EventDescriptor(b), NoNode)
                            ELSE @[x]]],
              e |-> b]

\* Smpl._put_elm on the nodes
linked_put_elm(H, e) ==
    [H EXCEPT !.node[e].next = H.pool, !.pool = e]

\* Smpl._enlist_evl on the nodes
linked_enlist_evl(H, e) ==
    LET w == Walk(H, H.evl)
        p == enlist_evl_position(Entries(H, H.evl), H.node[e].d)
        pred == IF p = 1 THEN NoNode ELSE w[p - 1]
        succ == IF p > Len(w) THEN NoNode ELSE w[p]
        H1 == [H EXCEPT !.node[e].next = succ]
    IN  IF succ # H.evl
        THEN [H1 EXCEPT !.node[pred].next = e, !.scheduled = Append(@, e)]
        ELSE [H1 EXCEPT !.evl = e, !.scheduled = Append(@, e)]

\* Smpl._enlist_facility_evq on the nodes
linked_enlist_facility_evq(H, f, e) ==
    LET w == Walk(H, H.fq[f])
        p == enlist_facility_evq_position(Entries(H, H.fq[f]), H.node[e].d)
        pred == IF p = 1 THEN NoNode ELSE w[p - 1]
        succ == IF p > Len(w) THEN NoNode ELSE w[p]
        H1 == [H EXCEPT !.node[e].next = succ]
    IN  IF succ # H.fq[f] THEN [H1 EXCEPT !.node[pred].next = e]
        ELSE [H1 EXCEPT !.fq[f] = e]

\* Smpl.remevent, Smpl.unschedule and Smpl._suspend on the nodes: the entry
\* the scan stopped at, the p-th, is taken out of the time queue
linked_unlink(H, p) ==
    LET w == Walk(H, H.evl)
    IN  IF w[p] = H.evl
        THEN [H EXCEPT !.evl = H.node[w[p]].next, !.waiters = Without(@, w[p])]
        ELSE [H EXCEPT !.node[w[p - 1]].next = H.node[w[p]].next,
                       !.waiters = Without(@, w[p])]

\* Smpl._enqueue on the nodes
linked_enqueue(H, S, f, token, priority, event_code, remaining_time_to_event) ==
    LET g == linked_get_elm(H, S)
        H1 == [g.h EXCEPT !.node[g.e].d =
                  [@ EXCEPT !.token = token,
                            !.event_code = event_code,
                            !.remaining_time_to_event = remaining_time_to_event,
                            !.priority = priority]]
    IN  linked_enlist_facility_evq(H1, f, g.e)

\* Smpl.schedule on the nodes
linked_schedule(H, S, event_code, time_to_event, token) ==
    IF time_to_event < 0 \/ isinf(time_to_event) \/ isnan(time_to_event) THEN H
    ELSE IF token = NoToken THEN H
    ELSE LET g == linked_get_elm(H, S)
             H1 == [g.h EXCEPT !.node[g.e].d =
                       [@ EXCEPT !.event_code = event_code,
                                 !.token = token,
                                 !.remaining_time_to_event = 0,
                                 !.trigger_time = FAdd(S.clock, time_to_event)]]
         IN  linked_enlist_evl(H1, g.e)

\* Smpl.cause on the nodes
linked_cause(H) ==
    IF H.evl # NoNode
    THEN linked_put_elm([H EXCEPT !.evl = H.node[H.evl].next,
                                  !.waiters = Without(@, H.evl)], H.evl)
    ELSE H

\* Smpl.remevent on the nodes; the trace message raises before the unlinking
linked_remevent(H, S, event_code) ==
    LET q == Entries(H, H.evl)
        p == FirstMatch({i \in 1..Len(q) : q[i].event_code = event_code})
    IN  IF p = 0 \/ S.trace_enabled THEN H
        ELSE linked_put_elm(linked_unlink(H, p), Walk(H, H.evl)[p])

\* Smpl.unschedule on the nodes
linked_unschedule(H, S, event_code, token) ==
    LET q == Entries(H, H.evl)
        p == FirstMatch({i \in 1..Len(q) :
                            q[i].event_code = event_code /\ q[i].token = token})
    IN  IF p = 0 \/ S.trace_enabled THEN H
        ELSE linked_put_elm(linked_unlink(H, p), Walk(H, H.evl)[p])

\* Smpl.request on the nodes
linked_request(H, S, f, token, priority) ==
    IF token = NoToken \/ get_facility_error(S, f) # "" THEN H
    ELSE IF S.facilities[f].busy_servers < Len(S.facilities[f].servers) THEN H
    ELSE linked_enqueue(H, S, f, token, priority, S.last_dispatched_event_code, 0)

\* Smpl.preempt on the nodes: the suspended descriptor goes to the pool and
\* _enqueue takes a descriptor from it
linked_preempt(H, S, f, token, priority) ==
    IF token = NoToken \/ get_facility_error(S, f) # "" THEN H
    ELSE IF S.facilities[f].busy_servers < Len(S.facilities[f].servers) THEN H
    ELSE
        LET chosen == S.facilities[f].servers[lowest_priority_server(S.facilities[f])]
            q == Entries(H, H.evl)
            p == IF chosen.busy_token = NoToken THEN 0
                 ELSE FirstMatch({i \in 1..Len(q) : q[i].token = chosen.busy_token})
        IN  IF not_higher(priority, chosen.busy_priority)
            THEN linked_enqueue(H, S, f, token, priority, S.last_dispatched_event_code, 0)
            ELSE IF S.trace_enabled \/ p = 0 THEN H
            ELSE
                LET e == Walk(H, H.evl)[p]
                    time_to_event ==
                        preempt_time_to_event(H.node[e].d.trigger_time, S.clock)
                    H1 == linked_put_elm(linked_unlink(H, p), e)
                IN  linked_enqueue(H1, S, f, chosen.busy_token, chosen.busy_priority,
                                   H.node[e].d.event_code, time_to_event)

\* Smpl.release on the nodes; the trace message raises before the dequeueing
linked_release(H, S, f, token) ==
    IF token = NoToken \/ get_facility_error(S, f) # "" THEN H
    ELSE IF matching_server(S.facilities[f], token) = 0 \/ S.trace_enabled THEN H
    ELSE IF S.facilities[f].event_queue_length > 0 /\ H.fq[f] # NoNode
    THEN LET e == H.fq[f]
             time_to_event == H.node[e].d.remaining_time_to_event
             H1 == [H EXCEPT !.fq[f] = H.node[e].next]
         IN  IF time_to_event = 0
             THEN [H1 EXCEPT !.node[e].d.trigger_time = S.clock,
                             !.node[e].next = H.evl,
                             !.evl = e,
                             !.scheduled = Append(@, e),
                             !.waiters = Append(@, e)]
             ELSE linked_enlist_evl(
                      [H1 EXCEPT !.node[e].d.trigger_time = FAdd(S.clock, time_to_event)], e)
    ELSE H

\* The nodes after the call c took the engine from S to o.s.
Relinked(c, S, o, H) ==
    IF ~H.tracked THEN H
    ELSE IF c.name = "init"
    THEN IF o.r.kind = "None" THEN Linked(o.s) ELSE H
    ELSE IF c.name = "facility"
    THEN [H EXCEPT !.fq = [h \in DOMAIN o.s.facilities |->
                              IF h \in DOMAIN @ THEN @[h] ELSE NoNode]]
    ELSE IF c.name = "schedule" THEN linked_schedule(H, S, c.a, c.b, c.c)
    ELSE IF c.name = "cause" THEN linked_cause(H)
    ELSE IF c.name \in {"remevent", "cancel"} THEN linked_remevent(H, S, c.a)
    ELSE IF c.name = "unschedule" THEN linked_unschedule(H, S, c.a, c.b)
    ELSE IF c.name = "request" THEN linked_request(H, S, c.a, c.b, c.c)
    ELSE IF c.name = "preempt" THEN linked_preempt(H, S, c.a, c.b, c.c)
    ELSE IF c.name = "release" THEN linked_release(H, S, c.a, c.b)
    ELSE H

\* What an observer has measured before any call: for each facility the
\* integral of the length of its queue over the interval, from its start to
\* the clock, and whether reset() was called since the last init().
Unmeasured(registry) ==
    [area |-> [h \in DOMAIN registry |-> 0], reset_called |-> FALSE]

\* What the observer has measured after the call c took the engine from S to
\* o.s: the queues keep their lengths while the clock moves.
Measured(c, S, o) ==
    IF c.name = "init" /\ o.r.kind = "None" THEN Unmeasured(o.s.facilities)
    ELSE IF c.name = "reset" /\ o.r.kind = "None"
    THEN [area |-> [h \in DOMAIN o.s.facilities |-> 0], reset_called |-> TRUE]
    ELSE [history EXCEPT !.area =
            [h \in DOMAIN o.s.facilities |->
                IF h \in DOMAIN S.facilities
                THEN FAdd(history.area[h],
                          FMul(Len(S.facilities[h].queue), FSub(o.s.clock, S.clock)))
                ELSE 0]]

Observed(c, S, o) ==
    IF c.name \in {"request", "preempt"} /\ o.r.kind = "int" /\ o.r.a = QUEUED
    THEN LET w == CHOOSE b \in Blks(o.s.facilities[c.a].queue) :
                      b \notin Blks(S.facilities[c.a].queue)
         IN  <<LogEntry("WAIT", c.b, S.clock, 0, S.last_dispatched_event_code, w)>>
    ELSE IF c.name = "preempt" /\ o.r.kind = "int"
            /\ o.s.facilities[c.a].preempt_count > S.facilities[c.a].preempt_count
    THEN LET k == CHOOSE i \in DOMAIN S.facilities[c.a].servers :
                      o.s.facilities[c.a].servers[i].release_count
                          > S.facilities[c.a].servers[i].release_count
             e == WithBlk(S.event_queue,
                          CHOOSE b \in Blks(S.event_queue) : b \notin Blks(o.s.event_queue))
         IN  <<LogEntry("PREEMPTED", S.facilities[c.a].servers[k].busy_token, S.clock,
                        e.trigger_time, e.event_code, e.blk)>>
    ELSE IF c.name = "release" /\ o.r.kind = "None"
            /\ S.facilities[c.a].queue # <<>>
            /\ Head(S.facilities[c.a].queue).blk \in Blks(o.s.event_queue)
            /\ o.s.facilities[c.a].busy_servers = S.facilities[c.a].busy_servers
    THEN LET e == WithBlk(o.s.event_queue, Head(S.facilities[c.a].queue).blk)
         IN  <<LogEntry("RESUMED", e.token, S.clock, e.trigger_time, e.event_code, e.blk)>>
    ELSE <<>>

EngineIs(S) ==
    /\ clock = S.clock
    /\ start = S.start
    /\ last_dispatched_event_code = S.last_dispatched_event_code
    /\ last_dispatched_token = S.last_dispatched_token
    /\ event_queue = S.event_queue
    /\ available_event_pool = S.available_event_pool
    /\ facilities = S.facilities
    /\ next_block_number = S.next_block_number
    /\ trace_enabled = S.trace_enabled
    /\ model_name = S.model_name
    /\ next_random_number_stream = S.next_random_number_stream
    /\ rand = S.rand

EngineBecomes(S) ==
    /\ clock' = S.clock
    /\ start' = S.start
    /\ last_dispatched_event_code' = S.last_dispatched_event_code
    /\ last_dispatched_token' = S.last_dispatched_token
    /\ event_queue' = S.event_queue
    /\ available_event_pool' = S.available_event_pool
    /\ facilities' = S.facilities
    /\ next_block_number' = S.next_block_number
    /\ trace_enabled' = S.trace_enabled
    /\ model_name' = S.model_name
    /\ next_random_number_stream' = S.next_random_number_stream
    /\ rand' = S.rand

\* A step of an engine specification: the call c is made and gives o.
Step(c, o, bound) ==
    /\ drv = NoDriver
    /\ nops < bound
    /\ EngineBecomes(o.s)
    /\ op' = c
    /\ ret' = o.r
    /\ nops' = nops + 1
    /\ log' = log \o Observed(c, Engine, o)
    /\ history' = Measured(c, Engine, o)
    /\ heap' = Relinked(c, Engine, o, heap)
    /\ drv' = drv

\* Spec: a constructed engine, every call of the interface, failing calls too.
Init ==
    /\ EngineIs(Constructed)
    /\ op = Call("Smpl", 0, 0, 0)
    /\ ret = [kind |-> "None", a |-> 0, b |-> 0]
    /\ nops = 0
    /\ drv = NoDriver
    /\ log = <<>>
    /\ history = Unmeasured(facilities)
    /\ heap = Unlinked

\* the model names a caller passes to init, numbered from 1
ModelNames == <<"M", "N">>

\* the facility names a caller passes to facility, numbered from 1
FacilityNames == <<"F", "G">>

\* the name a call carries: number 0 stands for an absent name
NameOf(names, k) == IF k = 0 THEN NoName ELSE names[k]

DoInit ==
    \E k \in {0} \cup DOMAIN ModelNames :
        Step(Call("init", k, 0, 0), init(Engine, NameOf(ModelNames, k)), MaxOps)

DoFacility ==
    \E k \in {0} \cup DOMAIN FacilityNames, n \in ServerCounts \cup {0} :
        Step(Call("facility", k, n, 0),
             facility(Engine, NameOf(FacilityNames, k), n), MaxOps)

DoSchedule ==
    \E code \in Codes, d \in Delays \cup BadDelays, t \in Tokens \cup {NoToken} :
        Step(Call("schedule", code, d, t), schedule(Engine, code, d, t), MaxOps)

DoCause == Step(Call("cause", 0, 0, 0), cause(Engine), MaxOps)

DoCancel ==
    \E code \in Codes : Step(Call("cancel", code, 0, 0), cancel(Engine, code), MaxOps)

DoRemevent ==
    \E code \in Codes : Step(Call("remevent", code, 0, 0), remevent(Engine, code), MaxOps)

DoUnschedule ==
    \E code \in Codes, t \in Tokens :
        Step(Call("unschedule", code, t, 0), unschedule(Engine, code, t), MaxOps)

DoRequest ==
    \E f \in DOMAIN facilities, t \in Tokens \cup {NoToken}, p \in Priorities :
        Step(Call("request", f, t, p), request(Engine, f, t, p), MaxOps)

DoPreempt ==
    \E f \in DOMAIN facilities, t \in Tokens \cup {NoToken}, p \in Priorities :
        Step(Call("preempt", f, t, p), preempt(Engine, f, t, p), MaxOps)

DoRelease ==
    \E f \in DOMAIN facilities, t \in Tokens \cup {NoToken} :
        Step(Call("release", f, t, 0), release(Engine, f, t), MaxOps)

DoReset == Step(Call("reset", 0, 0, 0), reset(Engine), MaxOps)

Next ==
    \/ DoInit
    \/ DoFacility
    \/ DoSchedule
    \/ DoCause
    \/ DoCancel
    \/ DoRemevent
    \/ DoUnschedule
    \/ DoRequest
    \/ DoPreempt
    \/ DoRelease
    \/ DoReset

Spec == Init /\ [][Next]_vars

\* SpecAll: Spec with trace() and the queries among the calls. Once trace(True)
\* was called, the calls that write a trace message raise TypeError.
DoTrace ==
    \E enabled \in BOOLEAN :
        Step(Call("trace", IF enabled THEN 1 ELSE 0, 0, 0), trace(Engine, enabled), MaxOps)

DoQuery ==
    \E name \in {"time", "mname", "fname", "status", "inq", "qlength", "Lq"},
       f \in DOMAIN facilities \cup {NoHandle} :
        /\ name \in {"time", "mname"} => f = NoHandle
        /\ Step(Call(name, f, 0, 0), query(Engine, name, f), MaxOps)

DoReserve ==
    \E f \in DOMAIN facilities \cup {NoHandle}, t \in Tokens \cup {NoToken}, p \in Priorities :
        Step(Call("reserve", f, t, p), reserve(Engine, f, t, p), MaxOps)

SpecAll == Init /\ [][Next \/ DoTrace \/ DoQuery \/ DoReserve]_vars

----------------------------------------------------------------------------
(* One engine initialized again and again, the caller reaching its         *)
(* generator through rand() in between. The log notes each init() that     *)
(* returned.                                                               *)

\* the streams a caller asks the generator for; 0 and 16 are refused
AskedStreams == {0, 7, 16}

\* the seed a caller gives the generator
AskedSeed == 12345

InitStep(c, o) ==
    /\ drv = NoDriver
    /\ nops < MaxInitOps
    /\ EngineBecomes(o.s)
    /\ op' = c
    /\ ret' = o.r
    /\ nops' = nops + 1
    /\ log' = IF c.name = "init" /\ o.r.kind = "None"
              THEN Append(log, LogEntry("INIT", NoToken, 0, 0, 0, 0))
              ELSE log
    /\ history' = Measured(c, Engine, o)
    /\ heap' = Relinked(c, Engine, o, heap)
    /\ drv' = drv

ReInit ==
    \E k \in {0} \cup DOMAIN ModelNames :
        InitStep(Call("init", k, 0, 0), init(Engine, NameOf(ModelNames, k)))

RandStream ==
    \E n \in AskedStreams : InitStep(Call("stream", n, 0, 0), stream(Engine, n))

RandSeed == InitStep(Call("seed", AskedSeed, 0, 0), seed(Engine, AskedSeed))

InitNext == ReInit \/ RandStream \/ RandSeed

SpecInit == Init /\ [][InitNext]_vars

----------------------------------------------------------------------------
(* The generator of one engine, reached through rand(): a caller that sets *)
(* its stream and seed and draws from it.                                  *)

\* the streams asked for (src/test/test.py asks for -1 to 17)
Streams == -1..17

\* the seeds given: the ends of the range 1..M-1, the ends of the 16-bit
\* halves and of the quotient M \div A
Seeds == {1, 2, 32767, 32768, 65535, 65536, 127773, 127774, 1073741823, M - 2, M - 1}

\* the boundaries given to uniform, NaN among them, and to random
Boundaries == {0, 5, 10}

GenInit ==
    /\ EngineIs(Constructed)
    /\ op = Call("Smpl", 0, 0, 0)
    /\ ret = [kind |-> "None", a |-> 0, b |-> 0]
    /\ nops = 0
    /\ drv = [mode |-> "rand", seedings |-> 0, draws |-> 0]
    /\ log = <<>>
    /\ history = Unmeasured(facilities)
    /\ heap = Unlinked

GenStep(c, o, seedings, draws) ==
    /\ drv.mode = "rand"
    /\ drv.seedings + seedings <= MaxSeedings
    /\ drv.draws + draws <= MaxDraws
    /\ EngineBecomes(o.s)
    /\ op' = c
    /\ ret' = o.r
    /\ nops' = nops + 1
    /\ drv' = [drv EXCEPT !.seedings = @ + seedings, !.draws = @ + draws]
    /\ log' = log
    /\ history' = Measured(c, Engine, o)
    /\ heap' = Relinked(c, Engine, o, heap)

GenStream == \E n \in Streams : GenStep(Call("stream", n, 0, 0), stream(Engine, n), 1, 0)

GenSeed == \E new_seed \in Seeds : GenStep(Call("seed", new_seed, 0, 0), seed(Engine, new_seed), 1, 0)

GenRanf == GenStep(Call("ranf", 0, 0, 0), ranf(Engine), 0, 1)

GenUniform ==
    \E lower, upper \in Boundaries \cup {NaN} :
        GenStep(Call("uniform", lower, upper, 0), uniform(Engine, lower, upper), 0, 1)

GenRandom ==
    \E lower, upper \in Boundaries :
        GenStep(Call("random", lower, upper, 0), random(Engine, lower, upper), 0, 1)

GenNormal == \E o \in normal(Engine) : GenStep(Call("normal", 0, 0, 0), o, 0, 1)

GenNext == GenStream \/ GenSeed \/ GenRanf \/ GenUniform \/ GenRandom \/ GenNormal

SpecRand == GenInit /\ [][GenNext]_vars

----------------------------------------------------------------------------
(* SpecFac: the engine after init("M") and facility("F", n), under any     *)
(* sequence of schedule, cause, unschedule, reset, request, preempt and    *)
(* release calls with arguments of the types the interface takes.          *)

\* the engine after init(name) and facility("F", n)
SetUp(name, n) == facility(init(Constructed, name).s, "F", n).s

\* the identifier facility() returned in SetUp
TheFacility == 1

FacStart ==
    /\ \E n \in ServerCounts : EngineIs(SetUp("M", n))
    /\ op = Call("facility", 1, 0, 0)
    /\ ret = [kind |-> "handle", a |-> TheFacility, b |-> 0]
    /\ nops = 0
    /\ drv = NoDriver
    /\ log = <<>>
    /\ history = Unmeasured(facilities)

FacInit == FacStart /\ heap = Unlinked

FacSchedule ==
    \E code \in Codes, d \in Delays, t \in Tokens :
        Step(Call("schedule", code, d, t), schedule(Engine, code, d, t), MaxFacOps)

FacCause == Step(Call("cause", 0, 0, 0), cause(Engine), MaxFacOps)

FacRequest ==
    \E t \in Tokens, p \in Priorities :
        Step(Call("request", TheFacility, t, p),
             request(Engine, TheFacility, t, p), MaxFacOps)

FacPreempt ==
    \E t \in Tokens, p \in Priorities :
        Step(Call("preempt", TheFacility, t, p),
             preempt(Engine, TheFacility, t, p), MaxFacOps)

FacRelease ==
    \E t \in Tokens :
        Step(Call("release", TheFacility, t, 0),
             release(Engine, TheFacility, t), MaxFacOps)

FacUnschedule ==
    \E code \in Codes, t \in Tokens :
        Step(Call("unschedule", code, t, 0), unschedule(Engine, code, t), MaxFacOps)

FacReset == Step(Call("reset", 0, 0, 0), reset(Engine), MaxFacOps)

FacNext ==
    \/ FacSchedule
    \/ FacCause
    \/ FacUnschedule
    \/ FacReset
    \/ FacRequest
    \/ FacPreempt
    \/ FacRelease

----------------------------------------------------------------------------
(* The drivers of test_facility_request_and_release_single_server,         *)
(* ..._multiple_servers and test_facility_preempt_and_release_single_server*)
(* (src/test/test.py): each token's request event is scheduled up front,   *)
(* then the loop dispatches events until cause() returns None.  A request  *)
(* event calls request() or preempt() and, on RESERVED, schedules the      *)
(* token's release event `hold` ahead; a release event calls release().    *)
(* The arrival times, the hold time, the priorities and the number of      *)
(* servers are those of the tests made arbitrary.                          *)

EVENT_REQUEST == 1
EVENT_RELEASE == 2

\* the tokens of the tests
DrvTokens == {1, 2, 3}

\* the priorities the preempt driver hands out
DrvPriorities == {0, 1, 2}

Arrivals == {a * Unit : a \in 0..MaxArrival}

Holds == {h * Unit : h \in 0..MaxHold}

\* smpl.schedule(EVENT_REQUEST, arrival[t], t) for t = 1, 2, ..., k in this order
RECURSIVE Arrive(_, _, _)
Arrive(S, arrival, k) ==
    IF k = 0 THEN S
    ELSE schedule(Arrive(S, arrival, k - 1), EVENT_REQUEST, arrival[k], k).s

DrvStart ==
    /\ \E mode \in {"request", "preempt"}, n \in ServerCounts, hold \in Holds,
          arrival \in [DrvTokens -> Arrivals], prio \in [DrvTokens -> DrvPriorities] :
          /\ mode = "request" => \A t \in DrvTokens : prio[t] = prio[1] /\ prio[t] \in Priorities
          /\ EngineIs(Arrive(SetUp("M", n), arrival, Cardinality(DrvTokens)))
          /\ drv = [mode |-> mode, hold |-> hold, prio |-> prio, arrival |-> arrival,
                    pc |-> "loop", ev |-> 0, tkn |-> NoToken]
    /\ op = Call("schedule", EVENT_REQUEST, 0, Cardinality(DrvTokens))
    /\ ret = [kind |-> "None", a |-> 0, b |-> 0]
    /\ nops = 0
    /\ log = <<>>
    /\ history = Unmeasured(facilities)

DrvInit == DrvStart /\ heap = Unlinked

\* A step of a driver: the call c is made and gives o, and the driver goes on
\* at pc after appending its own entries to the log.
DrvStep(c, o, pc, entries) ==
    /\ EngineBecomes(o.s)
    /\ op' = c
    /\ ret' = o.r
    /\ nops' = nops + 1
    /\ log' = log \o Observed(c, Engine, o) \o entries
    /\ history' = Measured(c, Engine, o)
    /\ heap' = Relinked(c, Engine, o, heap)
    /\ drv' = [drv EXCEPT !.pc = pc,
                          !.ev = IF c.name = "cause" /\ o.r.kind = "pair" THEN o.r.a ELSE @,
                          !.tkn = IF c.name = "cause" /\ o.r.kind = "pair" THEN o.r.b ELSE @]

\* where the loop goes after request() or preempt(); an exception ends the test
AfterRequest(o) ==
    IF o.r.kind # "int" THEN "done"
    ELSE IF o.r.a = RESERVED THEN "schedule" ELSE "loop"

\* (ev, tkn) = smpl.cause(); unpacking None raises and the loop ends
DrvCause ==
    /\ drv.mode \in {"request", "preempt"}
    /\ drv.pc = "loop"
    /\ LET o == cause(Engine)
       IN  DrvStep(Call("cause", 0, 0, 0), o,
                   IF o.r.kind = "pair" THEN "handle" ELSE "done", <<>>)

\* if ev == EVENT_REQUEST: if smpl.request(f, tkn, 0) == RESERVED: ...
DrvRequest ==
    /\ drv.mode = "request"
    /\ drv.pc = "handle"
    /\ drv.ev = EVENT_REQUEST
    /\ LET o == request(Engine, TheFacility, drv.tkn, drv.prio[drv.tkn])
       IN  DrvStep(Call("request", TheFacility, drv.tkn, drv.prio[drv.tkn]), o,
                   AfterRequest(o), <<>>)

\* if ev == EVENT_REQUEST: if smpl.preempt(f, tkn, tkn) == RESERVED: ...
DrvPreempt ==
    /\ drv.mode = "preempt"
    /\ drv.pc = "handle"
    /\ drv.ev = EVENT_REQUEST
    /\ LET o == preempt(Engine, TheFacility, drv.tkn, drv.prio[drv.tkn])
       IN  DrvStep(Call("preempt", TheFacility, drv.tkn, drv.prio[drv.tkn]), o,
                   AfterRequest(o), <<>>)

\* smpl.schedule(EVENT_RELEASE, 5.0, tkn); log.append((EVENT_REQUEST, tkn, smpl.time()))
DrvSchedule ==
    /\ drv.mode \in {"request", "preempt"}
    /\ drv.pc = "schedule"
    /\ LET o == schedule(Engine, EVENT_RELEASE, drv.hold, drv.tkn)
       IN  DrvStep(Call("schedule", EVENT_RELEASE, drv.hold, drv.tkn), o,
                   IF o.r.kind = "None" THEN "loop" ELSE "done",
                   <<LogEntry("REQ", drv.tkn, clock, FAdd(clock, drv.hold),
                              EVENT_REQUEST, 0)>>)

\* elif ev == EVENT_RELEASE: smpl.release(f, tkn); log.append((EVENT_RELEASE, tkn, smpl.time()))
DrvRelease ==
    /\ drv.mode \in {"request", "preempt"}
    /\ drv.pc = "handle"
    /\ drv.ev = EVENT_RELEASE
    /\ LET o == release(Engine, TheFacility, drv.tkn)
       IN  DrvStep(Call("release", TheFacility, drv.tkn, 0), o,
                   IF o.r.kind = "None" THEN "loop" ELSE "done",
                   IF o.r.kind = "None"
                   THEN <<LogEntry("REL", drv.tkn, clock, 0, EVENT_RELEASE, 0)>>
                   ELSE <<>>)

DrvNext ==
    \/ DrvCause
    \/ DrvRequest
    \/ DrvPreempt
    \/ DrvSchedule
    \/ DrvRelease

\* SpecDrv: the test drivers alone.
SpecDrv == DrvInit /\ [][DrvNext]_vars

\* SpecFac: an arbitrary caller making up to MaxFacOps calls, or a test driver
\* running to its end.
SpecFac == (FacInit \/ DrvInit) /\ [][FacNext \/ DrvNext]_vars

\* The caller of SpecFac initializing the engine again at any point, under
\* the same name, another one or none, and going on with the handle it has.
FacReInit ==
    \E k \in {0} \cup DOMAIN ModelNames :
        Step(Call("init", k, 0, 0), init(Engine, NameOf(ModelNames, k)), MaxFacOps)

SpecReInit == FacInit /\ [][FacNext \/ FacReInit]_vars

\* The caller of SpecFac also taking entries out of the time queue by their
\* code alone.
FacCancel ==
    \E code \in Codes : Step(Call("cancel", code, 0, 0), cancel(Engine, code), MaxFacOps)

FacRemevent ==
    \E code \in Codes : Step(Call("remevent", code, 0, 0), remevent(Engine, code), MaxFacOps)

SpecLists == (FacInit \/ DrvInit) /\ [][FacNext \/ FacCancel \/ FacRemevent \/ DrvNext]_vars

\* SpecLinked: the calls that link and unlink descriptors, and init(), made
\* by a caller in any order, from an engine that has its facility or from
\* one that has an event pending for token 1 as well, and the test drivers,
\* with the descriptors followed as the nodes the program links.
LinkedInit ==
    /\ \/ FacStart
       \/ DrvStart
       \/ /\ \E d \in Delays : EngineIs(schedule(SetUp("M", 1), 1, d, 1).s)
          /\ op = Call("schedule", 1, 0, 1)
          /\ ret = [kind |-> "None", a |-> 0, b |-> 0]
          /\ nops = 0
          /\ drv = NoDriver
          /\ log = <<>>
          /\ history = Unmeasured(facilities)
    /\ heap = Linked(Engine)

LinkedNext ==
    \/ \E code \in Codes, d \in Delays, t \in Tokens :
          Step(Call("schedule", code, d, t), schedule(Engine, code, d, t), MaxLinkedOps)
    \/ Step(Call("cause", 0, 0, 0), cause(Engine), MaxLinkedOps)
    \/ \E code \in Codes :
          Step(Call("remevent", code, 0, 0), remevent(Engine, code), MaxLinkedOps)
    \/ \E code \in Codes, t \in Tokens :
          Step(Call("unschedule", code, t, 0), unschedule(Engine, code, t), MaxLinkedOps)
    \/ \E t \in Tokens, p \in Priorities :
          Step(Call("request", TheFacility, t, p),
               request(Engine, TheFacility, t, p), MaxLinkedOps)
    \/ \E t \in Tokens, p \in Priorities :
          Step(Call("preempt", TheFacility, t, p),
               preempt(Engine, TheFacility, t, p), MaxLinkedOps)
    \/ \E t \in Tokens :
          Step(Call("release", TheFacility, t, 0),
               release(Engine, TheFacility, t), MaxLinkedOps)
    \/ Step(Call("init", 1, 0, 0), init(Engine, ModelNames[1]), MaxLinkedOps)

SpecLinked == LinkedInit /\ [][LinkedNext \/ DrvNext]_vars

\* SpecHeld: the caller of SpecFac, from a facility with a server that token 1
\* has held since time 0 at a clock of one time unit: after request(f, 1, 0),
\* schedule(1, 1.0, 1) and cause().
HeldInit ==
    /\ \E n \in ServerCounts :
          LET S1 == request(SetUp("M", n), TheFacility, 1, 0).s
              S2 == schedule(S1, 1, Unit, 1).s
          IN  /\ EngineIs(cause(S2).s)
              /\ ret = cause(S2).r
    /\ op = Call("cause", 0, 0, 0)
    /\ nops = 0
    /\ drv = NoDriver
    /\ log = <<>>
    /\ history = Unmeasured(facilities)
    /\ heap = Unlinked

SpecHeld == HeldInit /\ [][FacNext]_vars

\* SpecStale: the caller of SpecFac, who got the handle TheFacility under the
\* model name "M", initializing the engine again under another name or none,
\* creating facilities and events, and going on with the handle it has kept
\* and with those the engine has registered since.
StaleNext ==
    \/ \E k \in {0, 2} :
          Step(Call("init", k, 0, 0), init(Engine, NameOf(ModelNames, k)), MaxStaleOps)
    \/ \E n \in ServerCounts :
          Step(Call("facility", 2, n, 0),
               facility(Engine, NameOf(FacilityNames, 2), n), MaxStaleOps)
    \/ \E t \in Tokens :
          Step(Call("schedule", 1, Unit, t), schedule(Engine, 1, Unit, t), MaxStaleOps)
    \/ Step(Call("cause", 0, 0, 0), cause(Engine), MaxStaleOps)
    \/ \E name \in {"fname", "status", "inq", "U", "B", "Lq"},
          f \in {TheFacility} \cup DOMAIN facilities :
          Step(Call(name, f, 0, 0), query(Engine, name, f), MaxStaleOps)
    \/ \E f \in {TheFacility} \cup DOMAIN facilities, t \in Tokens, p \in Priorities :
          Step(Call("request", f, t, p), request(Engine, f, t, p), MaxStaleOps)
    \/ \E f \in {TheFacility} \cup DOMAIN facilities, t \in Tokens, p \in Priorities :
          Step(Call("preempt", f, t, p), preempt(Engine, f, t, p), MaxStaleOps)
    \/ \E f \in {TheFacility} \cup DOMAIN facilities, t \in Tokens :
          Step(Call("release", f, t, 0), release(Engine, f, t), MaxStaleOps)

SpecStale == FacInit /\ [][StaleNext]_vars

\* SpecWaiters: the caller of SpecLinked, from a facility of two servers that
\* tokens 1 and 2 hold, with two requests waiting for it.
WaitersInit ==
    /\ \E p, q \in Priorities :
          LET S1 == request(SetUp("M", 2), TheFacility, 1, 0).s
              S2 == request(S1, TheFacility, 2, 0).s
              S3 == request(S2, TheFacility, 1, p).s
          IN  /\ EngineIs(request(S3, TheFacility, 2, q).s)
              /\ op = Call("request", TheFacility, 2, q)
              /\ ret = request(S3, TheFacility, 2, q).r
    /\ nops = 0
    /\ drv = NoDriver
    /\ log = <<>>
    /\ history = Unmeasured(facilities)
    /\ heap = Linked(Engine)

SpecWaiters == WaitersInit /\ [][LinkedNext]_vars

----------------------------------------------------------------------------
(* SpecSched: after init("M"), events are scheduled and dispatched in any  *)
(* interleaving. The k-th event scheduled carries the token k, and the log *)
(* keeps what cause() dispatched, in the order of the dispatches.          *)

\* events scheduled in one behaviour of SpecSched
MaxEvents == 4

\* the delays schedule() is given
SchedDelays == {0, Unit, Unit + Unit}

SchedInit ==
    /\ EngineIs(init(Constructed, "M").s)
    /\ op = Call("init", 0, 0, 0)
    /\ ret = [kind |-> "None", a |-> 0, b |-> 0]
    /\ nops = 0
    /\ drv = [mode |-> "sched", scheduled |-> 0]
    /\ log = <<>>
    /\ history = Unmeasured(facilities)
    /\ heap = Unlinked

SchedSchedule ==
    /\ drv.mode = "sched"
    /\ drv.scheduled < MaxEvents
    /\ \E code \in Codes, d \in SchedDelays :
          LET o == schedule(Engine, code, d, drv.scheduled + 1)
          IN  /\ EngineBecomes(o.s)
              /\ op' = Call("schedule", code, d, drv.scheduled + 1)
              /\ ret' = o.r
              /\ history' = Measured(Call("schedule", code, d, drv.scheduled + 1), Engine, o)
              /\ heap' = Relinked(Call("schedule", code, d, drv.scheduled + 1), Engine, o, heap)
    /\ nops' = nops + 1
    /\ drv' = [drv EXCEPT !.scheduled = @ + 1]
    /\ log' = log

SchedCause ==
    /\ drv.mode = "sched"
    /\ event_queue # <<>>
    /\ LET o == cause(Engine)
       IN  /\ EngineBecomes(o.s)
           /\ op' = Call("cause", 0, 0, 0)
           /\ ret' = o.r
           /\ history' = Measured(Call("cause", 0, 0, 0), Engine, o)
           /\ heap' = Relinked(Call("cause", 0, 0, 0), Engine, o, heap)
           /\ log' = Append(log, LogEntry("DISPATCH", o.r.b, o.s.clock,
                                          Head(event_queue).trigger_time, o.r.a,
                                          Head(event_queue).blk))
    /\ nops' = nops + 1
    /\ drv' = drv

SchedNext ==
    \/ SchedSchedule
    \/ SchedCause

SpecSched == SchedInit /\ [][SchedNext]_vars

----------------------------------------------------------------------------
(* Properties of the engine. *)

\* the facility a call names, before and after the call
Before == facilities[op'.a]
After == facilities'[op'.a]

\* C1: cause() on an empty time queue returns None and changes nothing
\* (clock, last dispatched code and token, queues, free pool); on a non-empty
\* time queue it removes exactly the head entry, sets the clock to that
\* entry's trigger_time, records its (event_code, token) as the last
\* dispatched pair and returns that pair.
C1_CauseContract ==
    [][op'.name = "cause" =>
          IF event_queue # <<>>
          THEN /\ event_queue' = Tail(event_queue)
               /\ clock' = Head(event_queue).trigger_time
               /\ last_dispatched_event_code' = Head(event_queue).event_code
               /\ last_dispatched_token' = Head(event_queue).token
               /\ ret' = [kind |-> "pair", a |-> Head(event_queue).event_code,
                          b |-> Head(event_queue).token]
          ELSE /\ ret'.kind = "None"
               /\ UNCHANGED engineVars]_vars

\* cause() has dispatched an event that was due later than the clock stood,
\* with other events still waiting
C1_Witness ==
    /\ op.name = "cause"
    /\ ret.kind = "pair"
    /\ clock >= Unit
    /\ last_dispatched_token = ret.b
    /\ event_queue # <<>>

\* C2: after init(), the clock never decreases from one cause() to the next.
C2_ClockMonotone == [][clock' >= clock]_vars

\* two events were handled at different clocks and cause() has just
\* dispatched a later one
C2_Witness ==
    /\ op.name = "cause"
    /\ ret.kind = "pair"
    /\ \E i, j \in 1..Len(log) : i < j /\ log[i].at < log[j].at /\ log[j].at <= clock

\* C3: events inserted by schedule() are dispatched by cause() in ascending
\* trigger_time order whatever the order of the schedule() calls, and two
\* scheduled events with equal trigger_time are dispatched in the order in
\* which they were scheduled.
C3_DispatchOrder ==
    drv.mode = "sched" =>
        \A i, j \in 1..Len(log) :
            i < j => \/ log[i].due < log[j].due
                     \/ log[i].due = log[j].due /\ log[i].token < log[j].token

\* an event was dispatched ahead of one scheduled before it, and two events
\* due at the same time were dispatched one after the other
C3_Witness ==
    /\ drv.mode = "sched"
    /\ \E i, j \in 1..Len(log) : i < j /\ log[i].token > log[j].token
    /\ \E i, j \in 1..Len(log) : i < j /\ log[i].due = log[j].due

\* the servers of a facility without a holder
FreeServers(fd) == {i \in DOMAIN fd.servers : fd.servers[i].busy_token = NoToken}

\* the servers of a facility held by a token
HeldBy(fd, token) == {i \in DOMAIN fd.servers : fd.servers[i].busy_token = token}

\* the lowest priority among the holders of a facility
LowestHolderPriority(fd) ==
    CHOOSE p \in {fd.servers[i].busy_priority : i \in DOMAIN fd.servers} :
        \A i \in DOMAIN fd.servers : p <= fd.servers[i].busy_priority

\* the call just made put exactly one entry on the facility's queue, and
\* Entry holds of it
QueueGains(Entry(_)) ==
    \E pos \in 1..Len(After.queue) :
        /\ RemoveAt(After.queue, pos) = Before.queue
        /\ Entry(After.queue[pos])

LastNoted(blk) ==
    CHOOSE i \in 1..Len(log) :
        /\ log[i].blk = blk
        /\ \A j \in 1..Len(log) : log[j].blk = blk => j <= i

\* C5: when release(f, t) finds f's queue non-empty with an ordinary waiter
\* (remaining_time_to_event = 0) at its head, the freed server stays without
\* a holder, the waiter's descriptor becomes the head of the time queue with
\* trigger_time = clock, and a cause() made next returns the waiter's
\* (event_code, token) at the unchanged clock, ahead of every entry already
\* pending for the current time; the event_code is the code that was last
\* dispatched when the waiter was enqueued.
C5_ReleaseToWaiter ==
    [][(/\ op'.name = "release"
        /\ ret'.kind = "None"
        /\ Before.queue # <<>>
        /\ Head(Before.queue).remaining_time_to_event = 0) =>
          LET w == Head(Before.queue)
              k == Min(HeldBy(Before, op'.b))
              next == cause(Engine')
          IN  /\ After.servers[k].busy_token = NoToken
              /\ event_queue' = <<[w EXCEPT !.trigger_time = clock]>> \o event_queue
              /\ clock' = clock
              /\ next.r = [kind |-> "pair", a |-> w.event_code, b |-> w.token]
              /\ next.s.clock = clock
              /\ \E i \in 1..Len(log) :
                    /\ i = LastNoted(w.blk)
                    /\ log[i].kind = "WAIT"
                    /\ log[i].token = w.token
                    /\ log[i].code = w.event_code]_vars

\* release() has put a waiter at the head of the time queue, ahead of an
\* event that was already due at the current time
C5_Witness ==
    /\ op.name = "release"
    /\ ret.kind = "None"
    /\ Len(event_queue) > 1
    /\ event_queue[1].trigger_time = clock
    /\ event_queue[2].trigger_time = clock
    /\ \E i \in 1..Len(log) :
          /\ log[i].kind = "WAIT"
          /\ log[i].blk = event_queue[1].blk
          /\ log[i].token = event_queue[1].token
    /\ FreeServers(facilities[op.a]) # {}

\* Strict preemption as C6 has it, for a victim with an event pending. The
\* remaining time of the entry is the suspended trigger_time less the clock,
\* and with floor a difference of zero is replaced by Tiny.
PreemptContract(floor) ==
    (/\ op'.name = "preempt"
     /\ Before.busy_servers = Len(Before.servers)
     /\ op'.c > LowestHolderPriority(Before)
     /\ \E i \in 1..Len(event_queue) :
           event_queue[i].token =
               Before.servers[Min({j \in DOMAIN Before.servers :
                   Before.servers[j].busy_priority = LowestHolderPriority(Before)})].busy_token) =>
        LET k == Min({j \in DOMAIN Before.servers :
                        Before.servers[j].busy_priority = LowestHolderPriority(Before)})
            victim == Before.servers[k]
        IN  /\ ret' = [kind |-> "int", a |-> RESERVED, b |-> 0]
            /\ \E pos \in 1..Len(event_queue) :
                  LET e == event_queue[pos]
                      left == FSub(e.trigger_time, clock)
                      Entry(d) == /\ d.token = victim.busy_token
                                  /\ d.priority = victim.busy_priority
                                  /\ d.event_code = e.event_code
                                  /\ d.remaining_time_to_event =
                                         IF floor /\ left = 0 THEN Tiny ELSE left
                  IN  /\ e.token = victim.busy_token
                      /\ event_queue' = RemoveAt(event_queue, pos)
                      /\ QueueGains(Entry)
            /\ After.servers[k].release_count = victim.release_count + 1
            /\ After.preempt_count = Before.preempt_count + 1
            /\ After.servers[k].busy_token = op'.b
            /\ After.servers[k].busy_priority = op'.c
            /\ After.servers[k].busy_time = clock
            /\ After.busy_servers = Before.busy_servers

\* C6: preempt(f, token, priority) called when all servers of f are held,
\* priority is strictly greater than the minimum holder_priority and the
\* victim has an event pending: the victim is the holder with the minimum
\* holder_priority, the lowest-indexed server among ties; the victim's
\* pending event is removed from the time queue; f's queue gains exactly one
\* entry carrying the victim's token, the victim's former holder_priority,
\* the suspended event's event_code and remaining_time_to_event = suspended
\* trigger_time - clock, or 1e-99 when that difference is 0; the victim
\* server's release_count and f's preempt_count each grow by 1; the server's
\* holder becomes token with the given priority and hold_start = clock;
\* busy_count is unchanged; the result is RESERVED.
C6_PreemptContract == [][PreemptContract(TRUE)]_vars

\* C6 as stated: the remaining time is the difference also when it is 0
C6_AsStated == [][PreemptContract(FALSE)]_vars

\* of two holders of equal priority the one on the first server was
\* preempted, at the very time its event was due
C6_Witness ==
    /\ op.name = "preempt"
    /\ ret = [kind |-> "int", a |-> RESERVED, b |-> 0]
    /\ Len(facilities[op.a].servers) > 1
    /\ facilities[op.a].servers[1].busy_token = op.b
    /\ facilities[op.a].servers[1].busy_priority > facilities[op.a].servers[2].busy_priority
    /\ Len(log) > 0
    /\ log[Len(log)].kind = "PREEMPTED"
    /\ log[Len(log)].at = clock
    /\ log[Len(log)].due = clock
    /\ \E i \in 1..Len(facilities[op.a].queue) :
          /\ facilities[op.a].queue[i].token = log[Len(log)].token
          /\ facilities[op.a].queue[i].priority = facilities[op.a].servers[2].busy_priority
          /\ facilities[op.a].queue[i].remaining_time_to_event = Tiny

\* C7: whenever busy_count < n_servers, or all servers are held and priority
\* <= the lowest holder_priority, preempt(f, token, priority) returns the
\* same result and yields the same engine state as request(f, token,
\* priority) from the same state: no holder is displaced, no time-queue
\* entry is removed, and preempt_count and every release_count are unchanged.
C7_PreemptAsRequest ==
    [][(/\ op'.name = "preempt"
        /\ \/ Before.busy_servers < Len(Before.servers)
           \/ /\ Before.busy_servers = Len(Before.servers)
              /\ op'.c <= LowestHolderPriority(Before)) =>
          LET r == request(Engine, op'.a, op'.b, op'.c)
          IN  /\ ret' = r.r
              /\ Engine' = r.s
              /\ \A i \in DOMAIN Before.servers :
                    /\ Before.servers[i].busy_token # NoToken =>
                           After.servers[i].busy_token = Before.servers[i].busy_token
                    /\ After.servers[i].release_count = Before.servers[i].release_count
              /\ event_queue' = event_queue
              /\ After.preempt_count = Before.preempt_count]_vars

\* preempt() with the priority of the only holder was queued
C7_Witness ==
    /\ op.name = "preempt"
    /\ ret = [kind |-> "int", a |-> QUEUED, b |-> 0]
    /\ \A i \in DOMAIN facilities[op.a].servers :
          facilities[op.a].servers[i].busy_priority = op.c
    /\ \E i \in 1..Len(facilities[op.a].queue) :
          /\ facilities[op.a].queue[i].token = op.b
          /\ facilities[op.a].queue[i].remaining_time_to_event = 0

\* C8: when release(f, t) finds f's queue non-empty with a preempted entry
\* (remaining_time_to_event > 0) at its head, the server just freed is
\* re-reserved at once for the dequeued token (holder = that token,
\* holder_priority = the entry's priority, hold_start = clock), so busy_count
\* is the same after release as before it, and the entry re-enters the time
\* queue with trigger_time = clock + remaining_time_to_event, placed by the
\* ascending rule after every existing entry with trigger_time <= that value.
C8_ReleaseToPreempted ==
    [][(/\ op'.name = "release"
        /\ ret'.kind = "None"
        /\ Before.queue # <<>>
        /\ Head(Before.queue).remaining_time_to_event > 0) =>
          LET d == Head(Before.queue)
              k == Min(HeldBy(Before, op'.b))
              due == FAdd(clock, d.remaining_time_to_event)
          IN  /\ After.servers[k].busy_token = d.token
              /\ After.servers[k].busy_priority = d.priority
              /\ After.servers[k].busy_time = clock
              /\ After.busy_servers = Before.busy_servers
              /\ \E pos \in 1..Len(event_queue') :
                    /\ RemoveAt(event_queue', pos) = event_queue
                    /\ event_queue'[pos].token = d.token
                    /\ event_queue'[pos].event_code = d.event_code
                    /\ event_queue'[pos].trigger_time = due
                    /\ \A i \in 1..Len(event_queue') :
                          /\ i < pos => event_queue'[i].trigger_time <= due
                          /\ i > pos => event_queue'[i].trigger_time > due]_vars

\* release() has given the server back to a preempted token, whose event
\* went into the time queue behind one due at the same time
C8_Witness ==
    /\ op.name = "release"
    /\ ret.kind = "None"
    /\ Len(log) > 0
    /\ \E i \in 1..Len(log) :
          /\ log[i].kind = "RESUMED"
          /\ log[i].at = clock
          /\ \E pos \in 2..Len(event_queue) :
                /\ event_queue[pos].blk = log[i].blk
                /\ event_queue[pos].token = log[i].token
                /\ event_queue[pos - 1].trigger_time = event_queue[pos].trigger_time
                /\ \E j \in DOMAIN facilities[op.a].servers :
                      facilities[op.a].servers[j].busy_token = log[i].token

\* the entries of the log up to i that tell of token in one of the kinds
Told(token, kinds, i) ==
    {j \in 1..i : log[j].token = token /\ log[j].kind \in kinds}

\* the latest of them, given that there is one
Latest(token, kinds, i) ==
    CHOOSE j \in Told(token, kinds, i) : \A m \in Told(token, kinds, i) : m <= j

\* the first request of a token that has asked for the facility
FirstAsk(token) ==
    CHOOSE j \in Told(token, {"REQ", "WAIT"}, Len(log)) :
        \A m \in Told(token, {"REQ", "WAIT"}, Len(log)) : j <= m

\* the tokens that have asked for the facility
Asked == {t \in DrvTokens : Told(t, {"REQ", "WAIT"}, Len(log)) # {}}

\* the time a token has held a server over the first i entries of the log, if
\* it holds none after them: what lies between its getting a server ("REQ",
\* "RESUMED") and its losing it ("PREEMPTED", "REL")
RECURSIVE Held(_, _)
Held(token, i) ==
    IF i = 0 THEN 0
    ELSE Held(token, i - 1)
         + (IF log[i].token # token THEN 0
            ELSE IF log[i].kind \in {"REQ", "RESUMED"} THEN 0 - log[i].at
            ELSE IF log[i].kind \in {"PREEMPTED", "REL"} THEN log[i].at
            ELSE 0)

\* what the replacement of a zero remaining time by Tiny has added to the
\* time a token held a server over the first i entries of the log
RECURSIVE Floored(_, _)
Floored(token, i) ==
    IF i = 0 THEN 0
    ELSE Floored(token, i - 1)
         + (IF log[i].token = token /\ log[i].kind = "RESUMED"
               /\ log[Latest(token, {"PREEMPTED"}, i)].due
                      = log[Latest(token, {"PREEMPTED"}, i)].at
            THEN FAdd(log[i].at, Tiny) - log[i].at
            ELSE 0)

\* The times of C9 under the preempt driver: a preempted token is due at its
\* resumption plus what was left at its preemption, every release comes when
\* it is due, and the holds of a released token add up to the hold time; with
\* floor, a zero left at the preemption counts as Tiny.
PreemptDriverTimes(floor) ==
    drv.mode = "preempt" =>
        \A i \in 1..Len(log) :
            /\ log[i].kind = "RESUMED" =>
                  LET p == log[Latest(log[i].token, {"PREEMPTED"}, i)]
                      left == FSub(p.due, p.at)
                  IN  log[i].due =
                          FAdd(log[i].at, IF floor /\ left = 0 THEN Tiny ELSE left)
            /\ log[i].kind = "REL" =>
                  /\ log[i].at = log[Latest(log[i].token, {"REQ", "RESUMED"}, i)].due
                  /\ Held(log[i].token, i) =
                         drv.hold + (IF floor THEN Floored(log[i].token, i) ELSE 0)

\* the priorities of the tokens grow strictly in the order of their first requests
IncreasingPriorities ==
    \A t, u \in Asked : FirstAsk(t) < FirstAsk(u) => drv.prio[t] < drv.prio[u]

\* the releases so far came in decreasing order of priority
DecreasingReleases ==
    \A i, j \in 1..Len(log) :
        (i < j /\ log[i].kind = "REL" /\ log[j].kind = "REL") =>
            drv.prio[log[i].token] > drv.prio[log[j].token]

\* no token was released while a token of higher priority that had made its
\* request was yet to be released
HighestReleasedFirst ==
    \A i \in 1..Len(log) :
        log[i].kind = "REL" =>
            \A u \in DrvTokens :
                (/\ drv.prio[u] > drv.prio[log[i].token]
                 /\ Told(u, {"REQ", "WAIT"}, i) # {}) => Told(u, {"REL"}, i) # {}

\* C9: under a driver that calls preempt(f, token, priority) on each
\* dispatched request event, schedules the token's release event D time units
\* ahead on RESERVED and calls release(f, token) on each dispatched release
\* event: every token is released when the time it held a server, summed over
\* its hold intervals, is D, plus 1e-99 for each of its preemptions that came
\* at the very time its release was due, unless the addition to the clock of
\* its resumption absorbs the 1e-99; a preempted token's release fires at
\* (resume clock) + (original release time - preemption clock), with 1e-99
\* for a difference of 0; and with strictly increasing priorities on a
\* facility of one server no token is released while a token of higher
\* priority that has made its request is yet to be released, so that tokens
\* which all request before the first release are released in decreasing
\* priority order.
C9_PreemptDriver ==
    /\ PreemptDriverTimes(TRUE)
    /\ (/\ drv.mode = "preempt"
        /\ IncreasingPriorities
        /\ Len(facilities[TheFacility].servers) = 1) =>
           /\ HighestReleasedFirst
           /\ (\A i, j \in 1..Len(log) :
                  (log[i].kind = "REQ" /\ log[j].kind = "REL") => i < j)
                   => DecreasingReleases

\* C9 as stated: the hold intervals add up to D, the release fires at the
\* resume clock plus the plain difference, and strictly increasing priorities
\* alone give releases in decreasing priority order
C9_AsStated ==
    /\ PreemptDriverTimes(FALSE)
    /\ (drv.mode = "preempt" /\ IncreasingPriorities) => DecreasingReleases

\* C9 as stated, the times alone
C9_TimesAsStated == PreemptDriverTimes(FALSE)

\* C9 as stated, the order of the releases alone
C9_OrderAsStated == (drv.mode = "preempt" /\ IncreasingPriorities) => DecreasingReleases

\* the preempt driver has run to its end on one server with growing
\* priorities: one token was preempted with time left, one at the very time
\* its release was due, and all three were released
C9_Witness ==
    /\ drv.mode = "preempt"
    /\ drv.pc = "done"
    /\ Len(facilities[TheFacility].servers) = 1
    /\ IncreasingPriorities
    /\ \E i, j \in 1..Len(log) :
          /\ log[i].kind = "PREEMPTED" /\ log[i].due > log[i].at
          /\ log[j].kind = "PREEMPTED" /\ log[j].due = log[j].at
    /\ \A t \in DrvTokens : Told(t, {"REL"}, Len(log)) # {}
    /\ \A t \in DrvTokens : Told(t, {"RESUMED"}, Len(log)) # {} =>
                               Told(t, {"PREEMPTED"}, Len(log)) # {}

\* C10: under a driver that calls request(f, token, p) with one common
\* priority on each dispatched request event, schedules the token's release
\* event D time units ahead on RESERVED and calls release(f, token) on each
\* dispatched release event, for a facility of n >= 1 servers: tokens become
\* RESERVED in the order of their first request, a token that had to wait
\* becomes RESERVED at exactly the clock value of the release that freed its
\* server, and no token becomes RESERVED while a token that requested
\* earlier is still waiting.
C10_RequestDriver ==
    drv.mode = "request" =>
        \A i \in 1..Len(log) :
            log[i].kind = "REQ" =>
                /\ \A u \in Asked :
                      FirstAsk(u) < FirstAsk(log[i].token) => Told(u, {"REQ"}, i) # {}
                /\ Told(log[i].token, {"WAIT"}, i) # {} =>
                      /\ i > 1
                      /\ log[i - 1].kind = "REL"
                      /\ log[i - 1].at = log[i].at
                      /\ Latest(log[i].token, {"WAIT"}, i) < i - 1

\* the request driver has run to its end with two tokens that had to wait,
\* the second of them for longer than the first
C10_Witness ==
    /\ drv.mode = "request"
    /\ drv.pc = "done"
    /\ \E t, u \in DrvTokens :
          /\ t # u
          /\ Told(t, {"WAIT"}, Len(log)) # {}
          /\ Told(u, {"WAIT"}, Len(log)) # {}
          /\ log[Latest(t, {"REQ"}, Len(log))].at < log[Latest(u, {"REQ"}, Len(log))].at
    /\ \A t \in DrvTokens : Told(t, {"REL"}, Len(log)) # {}

\* the driver's loop has ended on cause() returning None, with every token
\* released exactly once, every facility queue empty and no server held
Terminated ==
    /\ drv.pc = "done"
    /\ op.name = "cause"
    /\ ret.kind = "None"
    /\ \A t \in DrvTokens : Cardinality(Told(t, {"REL"}, Len(log))) = 1
    /\ \A f \in DOMAIN facilities :
          /\ facilities[f].queue = <<>>
          /\ facilities[f].event_queue_length = 0
          /\ facilities[f].busy_servers = 0
          /\ FreeServers(facilities[f]) = DOMAIN facilities[f].servers

\* the guards of DrvCause, DrvSchedule, DrvRelease and of DrvRequest or
\* DrvPreempt: the loop of the driver has a next step
DrvCanStep ==
    /\ drv.mode \in {"request", "preempt"}
    /\ \/ drv.pc = "loop"
       \/ drv.pc = "schedule"
       \/ drv.pc = "handle" /\ drv.ev \in {EVENT_REQUEST, EVENT_RELEASE}

\* C11: under either standard driver (request-based or preempt-based, each
\* token requesting once and releasing after its hold time) with finitely
\* many tokens the run terminates: cause() eventually returns None, and at
\* that point every token has been released exactly once, every facility
\* queue is empty and every busy_count is 0. The loop has a next step until
\* it has ended so, and it takes no more than seven calls for each token
\* (two dispatches with their requests, the schedule, the dispatch of the
\* release and the release), so every run comes to that end.
C11_DriversTerminate ==
    /\ Terminated \/ DrvCanStep
    /\ nops <= 7 * Cardinality(DrvTokens)

\* a run has ended in which a token had to wait in the facility's queue and
\* another was preempted
C11_Witness ==
    /\ Terminated
    /\ \E i, j \in 1..Len(log) : log[i].kind = "WAIT" /\ log[j].kind = "PREEMPTED"

WithCode(event_code) == {i \in 1..Len(event_queue) : event_queue[i].event_code = event_code}

\* positions of the time-queue entries with a code and a token
WithCodeAndToken(event_code, token) ==
    {i \in WithCode(event_code) : event_queue[i].token = token}

\* the time queue loses the entry at position p and nothing else moves
Removes(p) == event_queue' = RemoveAt(event_queue, p)

\* C13: cancel(code) removes the first entry of the time queue that has the
\* code, keeps the order of the others and returns the removed entry's token;
\* when no entry has the code it returns None without failing and changes
\* nothing. The code fails in the second case: remevent hands back an empty
\* tuple, which is not None, and cancel indexes it.
C13_CancelContract ==
    [][(op'.name = "cancel" /\ ~trace_enabled) =>
          IF WithCode(op'.a) = {}
          THEN ret'.kind = "None" /\ UNCHANGED engineVars
          ELSE /\ ret'.kind = "token"
               /\ ret'.a = event_queue[Min(WithCode(op'.a))].token
               /\ Removes(Min(WithCode(op'.a)))]_vars

\* C13: a cancel for a code that no entry has, other entries waiting
C13_Witness ==
    /\ op.name = "cancel" /\ ret.kind = "IndexError"
    /\ event_queue # <<>>

\* C14: remevent(code) removes the entry cancel(code) would remove, the first
\* with the code, and returns the pair (token, trigger_time) of that entry;
\* when no entry has the code it returns None and the time queue is unchanged.
\* The code returns an empty tuple in the second case, not None.
C14_RemeventContract ==
    [][(op'.name = "remevent" /\ ~trace_enabled) =>
          IF WithCode(op'.a) = {}
          THEN ret'.kind = "None" /\ UNCHANGED event_queue
          ELSE /\ ret'.kind = "pair"
               /\ ret'.a = event_queue[Min(WithCode(op'.a))].token
               /\ ret'.b = event_queue[Min(WithCode(op'.a))].trigger_time
               /\ Removes(Min(WithCode(op'.a)))
               /\ event_queue' = cancel(Engine, op'.a).s.event_queue]_vars

\* C14: a remevent for a code that no entry has, other entries waiting
C14_Witness ==
    /\ op.name = "remevent" /\ ret.kind = "()"
    /\ event_queue # <<>>

\* the facilities are as they were before the step
FacilitiesKept == facilities' = facilities

\* C15: unschedule(code, token) returns true iff the time queue holds an entry
\* with that code and that token; then the first such entry from the head is
\* removed and the other entries keep their order; otherwise it returns false
\* and the time queue is unchanged. The facilities and the clock are unchanged
\* either way.
C15_UnscheduleContract ==
    [][(op'.name = "unschedule" /\ ~trace_enabled) =>
          /\ ret'.kind = "bool"
          /\ ret'.a = 1 <=> WithCodeAndToken(op'.a, op'.b) # {}
          /\ IF WithCodeAndToken(op'.a, op'.b) = {}
             THEN ret'.a = 0 /\ UNCHANGED event_queue
             ELSE Removes(Min(WithCodeAndToken(op'.a, op'.b)))
          /\ FacilitiesKept
          /\ clock' = clock]_vars

\* C15: an unschedule that removed an entry standing behind an entry of the
\* same code but another token and before an entry of the same code and token
C15_Witness ==
    /\ op.name = "unschedule" /\ ret.kind = "bool" /\ ret.a = 1
    /\ Len(event_queue) = 2
    /\ event_queue[1].event_code = op.a /\ event_queue[1].token # op.b
    /\ event_queue[2].event_code = op.a /\ event_queue[2].token = op.b

\* ---------------------------------------------------------------------------
\* Failing calls
\* ---------------------------------------------------------------------------

\* C16: release(f, token) when no server of f is held by the token fails and
\* leaves the engine as it was: holders, busy count, release counts, busy
\* times, the queue of f and its counters, and the time queue. This includes a
\* token that only waits in the queue of f or stands in it as a preempted entry.
C16_ReleaseWithoutServer ==
    [][(op'.name = "release" /\ HeldBy(Before, op'.b) = {}) =>
          /\ ret'.kind = "ValueError"
          /\ UNCHANGED engineVars]_vars

\* C16: a failed release by a token that was preempted into the queue, its
\* server now held by the preempting token
C16_Witness ==
    /\ op.name = "release" /\ ret.kind = "ValueError"
    /\ facilities[op.a].busy_servers > 0
    /\ \E i \in 1..Len(facilities[op.a].queue) :
          /\ facilities[op.a].queue[i].token = op.b
          /\ facilities[op.a].queue[i].remaining_time_to_event > 0

\* C17: schedule(code, delay, token) fails when the delay is negative, NaN or
\* infinite or the token is absent, and then the time queue, the pool and the
\* clock are unchanged; with a valid delay and token it adds exactly one entry,
\* whose trigger_time is clock + delay.
C17_ScheduleContract ==
    [][op'.name = "schedule" =>
          IF op'.b < 0 \/ isnan(op'.b) \/ isinf(op'.b) \/ op'.c = NoToken
          THEN /\ ret'.kind = "ValueError"
               /\ UNCHANGED <<event_queue, available_event_pool, clock>>
          ELSE /\ ret'.kind = "None"
               /\ clock' = clock
               /\ \E p \in 1..Len(event_queue') :
                     /\ event_queue = RemoveAt(event_queue', p)
                     /\ event_queue'[p].event_code = op'.a
                     /\ event_queue'[p].token = op'.c
                     /\ event_queue'[p].trigger_time = clock + op'.b]_vars

\* C17: a schedule refused for its delay, with an entry in the pool and the
\* clock advanced
C17_Witness ==
    /\ op.name = "schedule" /\ ret.kind = "ValueError" /\ op.c # NoToken
    /\ available_event_pool # <<>> /\ clock > 0

\* C18: facility(name, n) fails when n <= 0 or the name is absent and then
\* leaves the registry unchanged; otherwise it registers a new facility of n
\* servers, none of them held, with busy count 0 and an empty queue, and
\* returns a handle that differs from every handle returned since the last
\* init() and for which fname returns the name. The registry holds every
\* handle returned since the last init(): only init() takes handles out of it.
C18_FacilityContract ==
    [][op'.name = "facility" =>
          IF op'.b <= 0 \/ op'.a = 0
          THEN ret'.kind = "ValueError" /\ FacilitiesKept
          ELSE /\ ret'.kind = "handle"
               /\ ret'.a \notin DOMAIN facilities
               /\ DOMAIN facilities' = DOMAIN facilities \cup {ret'.a}
               /\ \A h \in DOMAIN facilities : facilities'[h] = facilities[h]
               /\ DOMAIN facilities'[ret'.a].servers = 1..op'.b
               /\ FreeServers(facilities'[ret'.a]) = 1..op'.b
               /\ facilities'[ret'.a].busy_servers = 0
               /\ facilities'[ret'.a].queue = <<>>
               /\ facilities'[ret'.a].event_queue_length = 0
               /\ query(Engine', "fname", ret'.a).r.kind = NameOf(FacilityNames, op'.a)]_vars

\* C18: a second facility registered after an init(), under the other name
C18_Witness ==
    /\ op.name = "facility" /\ ret.kind = "handle"
    /\ model_name # NoName
    /\ \E h \in DOMAIN facilities : h # ret.a /\ facilities[h].name # facilities[ret.a].name

\* ---------------------------------------------------------------------------
\* Initialization
\* ---------------------------------------------------------------------------

\* the number of init() calls that have returned
Inits(l) == Cardinality({i \in 1..Len(l) : l[i].kind = "INIT"})

\* the generator as stream n leaves it
OnStream(n) == [seed |-> DEFAULT_STREAMS[n], normal_z2 |-> 0]

\* C19: the k-th init() of one engine that succeeds sets the generator to
\* stream ((k-1) mod 15) + 1, so that the 16th uses stream 1 again; an init()
\* that fails for its absent name does not advance the rotation.
C19_StreamRotation ==
    [][op'.name = "init" =>
          IF op'.a = 0
          THEN /\ ret'.kind = "ValueError"
               /\ next_random_number_stream' = next_random_number_stream
               /\ rand' = rand
               /\ Inits(log') = Inits(log)
          ELSE /\ ret'.kind = "None"
               /\ Inits(log') = Inits(log) + 1
               /\ rand' = OnStream(((Inits(log') - 1) % 15) + 1)]_vars

\* C19: the 16th init() that succeeded, with other calls made in between
C19_Witness ==
    /\ op.name = "init" /\ ret.kind = "None"
    /\ Inits(log) = 16 /\ nops > 16
    /\ rand = OnStream(1)

\* C20: after an init(name) that succeeds, whatever the state before, the
\* clock is 0, the start of the interval is 0, the time queue is empty, so
\* that cause() returns None, the pool is empty, the registry is empty and
\* mname() returns the name. An init() with an absent name fails and changes
\* nothing.
C20_InitContract ==
    [][op'.name = "init" =>
          IF op'.a = 0
          THEN ret'.kind = "ValueError" /\ UNCHANGED engineVars
          ELSE /\ ret'.kind = "None"
               /\ clock' = 0
               /\ start' = 0
               /\ event_queue' = <<>>
               /\ cause(Engine').r.kind = "None"
               /\ available_event_pool' = <<>>
               /\ DOMAIN facilities' = {}
               /\ query(Engine', "mname", NoHandle).r.kind = NameOf(ModelNames, op'.a)]_vars

\* C20: an init() under another name, made with a facility registered and
\* after a dispatch, which init() leaves on record in the last dispatched token
C20_Witness ==
    /\ op.name = "init" /\ ret.kind = "None"
    /\ model_name = ModelNames[2]
    /\ last_dispatched_token # NoToken

\* ---------------------------------------------------------------------------
\* Measurements
\* ---------------------------------------------------------------------------

\* C21: reset() sets queue_exit_count, preempt_count and total_queueing_time
\* of every facility and release_count and total_busy_time of every server to
\* 0 and sets the start of the interval to the clock; it leaves unchanged the
\* clock, the time queue, every facility queue and its length, every holder
\* with its priority and the time it took the server, the busy count and the
\* time of the last change.
C21_ResetContract ==
    [][op'.name = "reset" =>
          /\ ret'.kind = "None"
          /\ start' = clock
          /\ clock' = clock
          /\ event_queue' = event_queue
          /\ DOMAIN facilities' = DOMAIN facilities
          /\ \A h \in DOMAIN facilities :
                /\ facilities'[h].queue_exit_count = 0
                /\ facilities'[h].preempt_count = 0
                /\ facilities'[h].total_queueing_time = 0
                /\ facilities'[h].queue = facilities[h].queue
                /\ facilities'[h].event_queue_length = facilities[h].event_queue_length
                /\ facilities'[h].busy_servers = facilities[h].busy_servers
                /\ facilities'[h].time_of_last_change = facilities[h].time_of_last_change
                /\ DOMAIN facilities'[h].servers = DOMAIN facilities[h].servers
                /\ \A i \in DOMAIN facilities[h].servers :
                      /\ facilities'[h].servers[i].release_count = 0
                      /\ facilities'[h].servers[i].total_busy_time = 0
                      /\ facilities'[h].servers[i].busy_token =
                            facilities[h].servers[i].busy_token
                      /\ facilities'[h].servers[i].busy_priority =
                            facilities[h].servers[i].busy_priority
                      /\ facilities'[h].servers[i].busy_time =
                            facilities[h].servers[i].busy_time]_vars

\* C21: a reset() after a preemption, which the log has noted and the
\* facility no longer counts, the preempted entry still in the queue
C21_Witness ==
    /\ op.name = "reset" /\ ret.kind = "None"
    /\ \E i \in 1..Len(log) : log[i].kind = "PREEMPTED"
    /\ \A h \in DOMAIN facilities :
          /\ facilities[h].preempt_count = 0
          /\ facilities[h].queue # <<>>
          /\ facilities[h].busy_servers > 0

\* the integral of the length of a facility's queue from the start of the
\* interval to the last change of the queue; the queue has kept its length
\* since that change
AreaToLastChange(h) ==
    history.area[h]
        - Len(facilities[h].queue) * (clock - facilities[h].time_of_last_change)

PlusMod(x, y) == IF x >= M - y THEN x - (M - y) ELSE x + y

\* (n * x) mod M for x below M, by doubling
RECURSIVE TimesMod(_, _)
TimesMod(n, x) ==
    IF n = 0 THEN 0
    ELSE LET half == TimesMod(n \div 2, x)
         IN  IF n % 2 = 1 THEN PlusMod(PlusMod(half, half), x) ELSE PlusMod(half, half)

\* the seeds of the range 1..2^31 - 2
InRange(a_seed) == 1 <= a_seed /\ a_seed <= M - 1

\* C23: for every seed S with 1 <= S <= 2^31 - 2, one ranf() call stores as
\* the new seed exactly (16807 * S) mod (2^31 - 1), computed through the
\* 16-bit halves, so that the seed stays within 1..2^31 - 2 after stream(n)
\* and any number of draws.
C23_RanfStep ==
    [][/\ (op'.name = "ranf" /\ InRange(rand.seed)) =>
              /\ rand'.seed = TimesMod(A, rand.seed)
              /\ rand'.normal_z2 = rand.normal_z2
              /\ ret'.kind = "float" /\ ret'.a = rand'.seed
       /\ (op'.name = "stream" /\ ret'.kind = "None") => InRange(rand'.seed)
       /\ (op'.name \in {"ranf", "uniform", "random", "normal"} /\ InRange(rand.seed)) =>
              InRange(rand'.seed)]_vars

\* C23: a draw from the greatest seed of the range, after draws that began
\* with a stream
C23_Witness ==
    /\ op.name = "ranf" /\ drv.draws = MaxDraws /\ drv.seedings = 2
    /\ rand.seed = TimesMod(A, M - 1)

\* a generator that has only been set to stream n
Fresh(n) == [Constructed EXCEPT !.rand = OnStream(n)]

\* C24: stream(n) succeeds iff 1 <= n <= 15; on success the seed becomes the
\* n-th entry of the default table and the carry of normal is cleared, so
\* that later outputs depend only on n and not on earlier use of the
\* generator; on failure the seed and the carry are unchanged.
C24_StreamContract ==
    [][op'.name = "stream" =>
          IF 1 <= op'.a /\ op'.a <= 15
          THEN /\ ret'.kind = "None"
               /\ rand'.seed = DEFAULT_STREAMS[op'.a]
               /\ rand'.normal_z2 = 0
               /\ ranf(Engine').r = ranf(Fresh(op'.a)).r
               /\ {o.r : o \in normal(Engine')} = {o.r : o \in normal(Fresh(op'.a))}
          ELSE /\ ret'.kind = "ValueError"
               /\ rand' = rand]_vars

\* C24: a stream set after a seed was given and draws were taken from it
C24_Witness ==
    /\ op.name = "stream" /\ ret.kind = "None"
    /\ drv.mode = "rand" /\ drv.seedings = 2 /\ drv.draws >= 2
    /\ rand = OnStream(op.a)

\* C25 as stated: uniform(a, b) succeeds iff a <= b, and random(a, b)
\* likewise; a failing call consumes no draw, a succeeding call advances the
\* seed by exactly one ranf step. No comparison with NaN holds, a <= b
\* included.
C25_AsStated ==
    [][op'.name \in {"uniform", "random"} =>
          IF ~isnan(op'.a) /\ ~isnan(op'.b) /\ op'.a <= op'.b
          THEN /\ ret'.kind \in {"float", "int"}
               /\ rand'.seed = next_seed(rand.seed)
               /\ rand'.normal_z2 = rand.normal_z2
          ELSE /\ ret'.kind = "ValueError"
               /\ rand' = rand]_vars

\* C25: uniform(a, b) fails iff a > b, so that it succeeds when a <= b and
\* also when a or b is NaN, and random(a, b), of two integers, succeeds iff
\* a <= b; a failing call consumes no draw, a succeeding call advances the
\* seed by exactly one ranf step.
C25_UniformGuard ==
    [][op'.name \in {"uniform", "random"} =>
          IF ~isnan(op'.a) /\ ~isnan(op'.b) /\ op'.a > op'.b
          THEN /\ ret'.kind = "ValueError"
               /\ rand' = rand
          ELSE /\ ret'.kind = IF op'.name = "uniform" THEN "float" ELSE "int"
               /\ rand'.seed = next_seed(rand.seed)
               /\ rand'.normal_z2 = rand.normal_z2]_vars

\* C25: a uniform refused for its boundaries on a generator that had drawn,
\* a carry pending
C25_Witness ==
    /\ op.name = "uniform" /\ ret.kind = "ValueError"
    /\ rand.normal_z2 # 0 /\ InRange(rand.seed)

\* ---------------------------------------------------------------------------
\* The alias of request
\* ---------------------------------------------------------------------------

\* C26: reserve(f, token, priority) is an alias of request: from any state it
\* returns what request(f, token, priority) returns and leaves the engine as
\* request leaves it. The code hands request the engine twice, and the call
\* fails before request runs.
C26_ReserveIsRequest ==
    [][op'.name = "reserve" =>
          /\ ret' = request(Engine, op'.a, op'.b, op'.c).r
          /\ Engine' = request(Engine, op'.a, op'.b, op'.c).s]_vars

\* C26: a reserve for a free server of a registered facility, which request
\* would have reserved
C26_Witness ==
    /\ op.name = "reserve" /\ ret.kind = "TypeError"
    /\ op.a \in DOMAIN facilities /\ op.b # NoToken
    /\ FreeServers(facilities[op.a]) # {}

\* ---------------------------------------------------------------------------
\* Invariants of the lists and counters
\* ---------------------------------------------------------------------------

\* C27: in every reachable state the time queue is sorted: of two adjacent
\* entries the first has the trigger_time that is not the greater. This holds
\* after any interleaving of schedule, cause, cancel, remevent, unschedule,
\* preempt, which suspends an entry, and release, which puts an entry at the
\* head or inserts a resumed one.
C27_TimeQueueSorted ==
    \A i \in 1..(Len(event_queue) - 1) :
        event_queue[i].trigger_time <= event_queue[i + 1].trigger_time

\* C27: a sorted time queue of entries due at different times, after a
\* release that put a waiting token's entry at its head
C27_Witness ==
    /\ op.name = "release" /\ ret.kind = "None"
    /\ Len(event_queue) >= 2
    /\ event_queue[1].trigger_time < event_queue[Len(event_queue)].trigger_time
    /\ \E i \in 1..Len(log) : log[i].kind = "WAIT" /\ log[i].token = event_queue[1].token

\* the servers of a facility that have a holder
ServersHeld(facility_data) ==
    {i \in DOMAIN facility_data.servers : facility_data.servers[i].busy_token # NoToken}

\* C28: on every facility the busy count is the number of servers that have
\* a holder, so it lies between 0 and the number of servers, and status() is
\* true exactly when every server has a holder
C28_BusyCount ==
    \A h \in DOMAIN facilities :
        /\ facilities[h].busy_servers = Cardinality(ServersHeld(facilities[h]))
        /\ 0 <= facilities[h].busy_servers
        /\ facilities[h].busy_servers <= Len(facilities[h].servers)
        /\ status(Engine, h) <=> ServersHeld(facilities[h]) = DOMAIN facilities[h].servers

\* a preemption has taken a server from its holder and given it to the caller,
\* and every server of the facility is held
C28_Witness ==
    \E h \in DOMAIN facilities :
        /\ facilities[h].preempt_count > 0
        /\ Len(facilities[h].servers) = 2
        /\ status(Engine, h)
        /\ facilities[h].event_queue_length > 0

\* C29: on every facility the queue length, which is what inq() returns, is
\* the number of descriptors on the facility's queue, and is never negative
C29_QueueLength ==
    \A h \in DOMAIN facilities :
        /\ inq(Engine, h) = Len(facilities[h].queue)
        /\ inq(Engine, h) >= 0

\* a release has taken one of two waiting entries off the queue: one is left
C29_Witness ==
    /\ op.name = "release" /\ ret.kind = "None"
    /\ \E h \in DOMAIN facilities :
          /\ facilities[h].queue_exit_count > 0
          /\ inq(Engine, h) = 1
          /\ facilities[h].queue # <<>>

\* an entry of a facility queue left there by a preemption
IsPreempted(e) == e.remaining_time_to_event > 0

\* the order of a facility queue, pair by pair
Ordered(q) ==
    \A i \in 1..(Len(q) - 1) :
        \/ q[i].priority > q[i + 1].priority
        \/ /\ q[i].priority = q[i + 1].priority
           /\ ~(q[i].remaining_time_to_event = 0 /\ q[i + 1].remaining_time_to_event > 0)

\* no ordinary waiter stands ahead of a preempted entry of its own or of a
\* higher priority
PreemptedAhead(q) ==
    \A i, j \in 1..Len(q) :
        (i < j /\ IsPreempted(q[j]) /\ ~IsPreempted(q[i])) => q[i].priority > q[j].priority

\* q2 is q with one entry more, which, when it is an ordinary waiter, stands
\* behind every ordinary waiter of its priority that was there
Joined(q, q2) ==
    \E p \in 1..Len(q2) :
        /\ q = RemoveAt(q2, p)
        /\ ~IsPreempted(q2[p]) =>
              \A i \in 1..Len(q2) :
                  (i # p /\ q2[i].priority = q2[p].priority /\ ~IsPreempted(q2[i])) => i < p

\* a step leaves a facility queue alone, takes its head off or adds one entry
QueueDiscipline ==
    \A h \in DOMAIN facilities \cap DOMAIN facilities' :
        LET q == facilities[h].queue
            q2 == facilities'[h].queue
        IN  \/ q2 = q
            \/ q # <<>> /\ q2 = Tail(q)
            \/ Joined(q, q2)

\* C30: each facility queue is ordered in every state: of two adjacent entries
\* the first has the higher priority, or they have the same priority and the
\* first is not an ordinary waiter ahead of a preempted entry. So a preempted
\* entry is dequeued before every ordinary waiter of the same or a lower
\* priority, and, entries leaving at the head only and an ordinary waiter
\* joining behind the ordinary waiters of its priority, ordinary waiters of
\* equal priority are dequeued in the order they were enqueued.
C30_QueueOrder ==
    /\ [](\A h \in DOMAIN facilities :
              Ordered(facilities[h].queue) /\ PreemptedAhead(facilities[h].queue))
    /\ [][QueueDiscipline]_vars

\* a preemption has put the holder it displaced ahead of an ordinary waiter of
\* the same priority
C30_Witness ==
    /\ op.name = "preempt" /\ ret.kind = "int" /\ ret.a = RESERVED
    /\ \E h \in DOMAIN facilities :
          LET q == facilities[h].queue
          IN  /\ Len(q) >= 2
              /\ IsPreempted(q[1])
              /\ ~IsPreempted(q[2])
              /\ q[1].priority = q[2].priority

\* the lists of the engine by their heads: the time queue, the pool and the
\* queue of each facility
ListHeads == {<<"evl", 0>>, <<"pool", 0>>} \cup {<<"fq", h>> : h \in DOMAIN heap.fq}

HeadAt(l) ==
    IF l[1] = "evl" THEN heap.evl
    ELSE IF l[1] = "pool" THEN heap.pool
    ELSE heap.fq[l[2]]

\* the descriptors the scan of a list passes
Passed(head) == LET w == Walk(heap, head) IN {w[i] : i \in 1..Len(w)}

\* the scan of a list comes to its end without passing a descriptor twice
Acyclic(head) == Len(Walk(heap, head)) = Cardinality(Passed(head))

\* C31: every event descriptor allocated since the last init() is on exactly
\* one list among the time queue, the facility queues and the pool, and once
\* on it: no list is cyclic and no two lists share a descriptor. The lists
\* read off the links are the lists the operations are defined on.
C31_OneList ==
    /\ \A l \in ListHeads : Acyclic(HeadAt(l))
    /\ UNION {Passed(HeadAt(l)) : l \in ListHeads} = DOMAIN heap.node
    /\ \A l, m \in ListHeads : l # m => Passed(HeadAt(l)) \cap Passed(HeadAt(m)) = {}
    /\ Entries(heap, heap.evl) = event_queue
    /\ Entries(heap, heap.pool) = available_event_pool
    /\ DOMAIN heap.fq = DOMAIN facilities
    /\ \A h \in DOMAIN facilities : Entries(heap, heap.fq[h]) = facilities[h].queue

\* a preemption has recycled the descriptor it suspended and taken it again
\* for the facility queue, where another descriptor was waiting already
C31_Witness ==
    /\ op.name = "preempt" /\ ret.kind = "int" /\ ret.a = RESERVED
    /\ \E h \in DOMAIN facilities :
          /\ facilities[h].preempt_count > 0
          /\ Len(Walk(heap, heap.fq[h])) >= 2
          /\ heap.node[heap.fq[h]].d.remaining_time_to_event > 0

\* preempt(f, token, priority) finds every server of f held and the holder
\* of the lowest priority, of a priority below the caller's, without an entry
\* in the time queue
VictimWithoutEvent(f, priority) ==
    /\ f \in DOMAIN facilities
    /\ ServersHeld(facilities[f]) = DOMAIN facilities[f].servers
    /\ LET chosen == facilities[f].servers[lowest_priority_server(facilities[f])]
       IN  /\ priority > chosen.busy_priority
           /\ \A i \in 1..Len(event_queue) : event_queue[i].token # chosen.busy_token

\* C32: a preempt that would displace a holder whose token has no entry in
\* the time queue fails, and leaves the engine as it was: the holder keeps its
\* server, and the counters, the facility queue and the time queue are as
\* before
C32_PreemptWithoutEvent ==
    [][(op'.name = "preempt" /\ op'.b # NoToken /\ VictimWithoutEvent(op'.a, op'.c)) =>
          /\ ret'.kind = "ValueError"
          /\ facilities' = facilities
          /\ event_queue' = event_queue
          /\ available_event_pool' = available_event_pool
          /\ UNCHANGED engineVars]_vars

\* such a preempt has failed while the time queue held the event of another
\* token
C32_Witness ==
    /\ op.name = "preempt" /\ ret.kind = "ValueError"
    /\ op.b # NoToken
    /\ VictimWithoutEvent(op.a, op.c)
    /\ event_queue # <<>>

\* the step is a preempt that displaced a holder of facility f
Displaces(f) ==
    /\ op'.name = "preempt"
    /\ op'.a = f
    /\ f \in DOMAIN facilities
    /\ f \in DOMAIN facilities'
    /\ facilities'[f].preempt_count > facilities[f].preempt_count

\* the entry the step took out of the time queue
Suspended == WithBlk(event_queue, CHOOSE b \in Blks(event_queue) : b \notin Blks(event_queue'))

\* the entry the step put on the queue of facility f
Enqueued(f) ==
    WithBlk(facilities'[f].queue,
            CHOOSE b \in Blks(facilities'[f].queue) : b \notin Blks(facilities[f].queue))

\* the step is a release that took a preempted entry off the queue of facility f
ResumesPreempted(f) ==
    /\ op'.name = "release"
    /\ op'.a = f
    /\ ret'.kind = "None"
    /\ f \in DOMAIN facilities
    /\ facilities[f].queue # <<>>
    /\ Head(facilities[f].queue).remaining_time_to_event > 0

\* C33: a holder displaced by preempt at the very clock value its pending
\* event was due is enqueued with a remaining time above 0; and the release
\* that dequeues an entry with a remaining time above 0 gives the server it
\* frees to that entry's token and puts its event into the time queue by the
\* ascending rule, behind the entries due at the same time, instead of
\* putting it at the head and leaving the server free.
C33_PreemptedAtDue ==
    [][\A f \in DOMAIN facilities :
          /\ (Displaces(f) /\ Suspended.trigger_time = clock) =>
                /\ Enqueued(f).remaining_time_to_event > 0
                /\ Enqueued(f).token = Suspended.token
          /\ ResumesPreempted(f) =>
                LET d == Head(facilities[f].queue)
                    k == matching_server(facilities[f], op'.b)
                    due == FAdd(clock, d.remaining_time_to_event)
                IN  /\ facilities'[f].servers[k].busy_token = d.token
                    /\ facilities'[f].busy_servers = facilities[f].busy_servers
                    /\ \E i \in 1..Len(event_queue') :
                          /\ event_queue'[i].blk = d.blk
                          /\ event_queue'[i].trigger_time = due
                          /\ event_queue = RemoveAt(event_queue', i)
                          /\ \A j \in 1..Len(event_queue') :
                                /\ j < i => event_queue'[j].trigger_time <= due
                                /\ j > i => event_queue'[j].trigger_time > due]_vars

\* a release has resumed a token that was displaced at the very time its
\* event was due, and the event stands behind another one due at that time
C33_Witness ==
    /\ op.name = "release" /\ ret.kind = "None"
    /\ \E i \in 1..Len(log), j \in 1..Len(log) :
          /\ i < j
          /\ log[i].kind = "PREEMPTED" /\ log[i].due = log[i].at
          /\ log[j].kind = "RESUMED" /\ log[j].token = log[i].token
          /\ \E n \in 2..Len(event_queue) :
                /\ event_queue[n].blk = log[j].blk
                /\ event_queue[n].trigger_time = log[j].due
                /\ event_queue[n - 1].trigger_time = log[j].at

\* when the descriptor b was last put into the time queue: the number of the
\* insertion, 0 for none
LastScheduled(b) ==
    LET at == {i \in 1..Len(heap.scheduled) : heap.scheduled[i] = b}
    IN  IF at = {} THEN 0 ELSE CHOOSE i \in at : \A j \in at : j <= i

\* C34: when preempt displaces a holder whose token has more than one entry
\* in the time queue, the entry it takes out and carries into the facility
\* queue is the one of them that was scheduled last
C34_MostRecentSuspended ==
    [][\A f \in DOMAIN facilities :
          Displaces(f) =>
              \A i \in 1..Len(event_queue) :
                  event_queue[i].token = Suspended.token =>
                      LastScheduled(event_queue[i].blk) <= LastScheduled(Suspended.blk)]_vars

\* preempt has displaced a holder and left the event scheduled last for the
\* holder's token in the time queue
C34_Witness ==
    /\ op.name = "preempt" /\ ret.kind = "int" /\ ret.a = RESERVED
    /\ \E f \in DOMAIN facilities :
          /\ facilities[f].queue # <<>>
          /\ Head(facilities[f].queue).remaining_time_to_event > 0
          /\ \E i \in 1..Len(event_queue) :
                /\ event_queue[i].token = Head(facilities[f].queue).token
                /\ heap.scheduled # <<>>
                /\ heap.scheduled[Len(heap.scheduled)] = event_queue[i].blk

\* the step changes the queue of facility h, by an enqueue or a dequeue
QueueChanges(h) == facilities'[h].queue # facilities[h].queue

\* C35: with no reset() since the last init(), the total queueing time of a
\* facility is the integral of the length of its queue from 0 to the time of
\* the last change, and the time of the last change is the clock value of the
\* latest enqueue or dequeue on the facility, 0 when there was none: a step
\* that changes the queue adds its length before the change times the time
\* since the last change and sets the time of the last change to the clock,
\* and no other step touches either.
C35_QueueingTime ==
    /\ [](~history.reset_called =>
             \A h \in DOMAIN facilities :
                 /\ start = 0
                 /\ facilities[h].total_queueing_time = AreaToLastChange(h)
                 /\ facilities[h].time_of_last_change <= clock)
    /\ [][\A h \in DOMAIN facilities' :
             IF h \notin DOMAIN facilities \/ op'.name = "init"
             THEN /\ facilities'[h].time_of_last_change = 0
                  /\ facilities'[h].total_queueing_time = 0
             ELSE IF QueueChanges(h)
             THEN /\ facilities'[h].time_of_last_change = clock
                  /\ clock' = clock
                  /\ facilities'[h].total_queueing_time =
                         FAdd(facilities[h].total_queueing_time,
                              FMul(facilities[h].event_queue_length,
                                   FSub(clock, facilities[h].time_of_last_change)))
                  /\ facilities'[h].event_queue_length # facilities[h].event_queue_length
             ELSE /\ facilities'[h].time_of_last_change = facilities[h].time_of_last_change
                  /\ op'.name # "reset" =>
                         facilities'[h].total_queueing_time
                             = facilities[h].total_queueing_time]_vars

\* entries have waited, one of them has left, and the clock has moved on
\* since: the total is above 0 and the time of the last change lies between
\* 0 and the clock
C35_Witness ==
    /\ ~history.reset_called
    /\ \E h \in DOMAIN facilities :
          /\ facilities[h].queue_exit_count > 0
          /\ facilities[h].total_queueing_time > 0
          /\ facilities[h].time_of_last_change > 0
          /\ facilities[h].time_of_last_change < clock
          /\ facilities[h].queue # <<>>

\* C36: no entry of the time queue is due before the clock: schedule, the
\* head splice of release and the insertion of a resumed event leave no
\* pending event in the past
C36_NoEventInThePast ==
    \A i \in 1..Len(event_queue) : event_queue[i].trigger_time >= clock

\* the clock has moved, and release has put a blocked request at the head of
\* the time queue, due at the clock, ahead of an event due later
C36_Witness ==
    /\ clock > 0
    /\ op.name = "release" /\ ret.kind = "None"
    /\ Len(event_queue) >= 2
    /\ event_queue[1].trigger_time = clock
    /\ event_queue[1].remaining_time_to_event = 0
    /\ event_queue[2].trigger_time > clock
    /\ \E i \in 1..Len(log) : log[i].kind = "WAIT" /\ log[i].blk = event_queue[1].blk

\* where the descriptor b stands in the time queue, 0 when it is not there
Position(b) ==
    LET at == {i \in 1..Len(event_queue) : event_queue[i].blk = b}
    IN  IF at = {} THEN 0 ELSE Min(at)

\* the step is a release that took an ordinary waiter off the queue of facility f
DequeuesWaiter(f) ==
    /\ op'.name = "release"
    /\ op'.a = f
    /\ ret'.kind = "None"
    /\ f \in DOMAIN facilities
    /\ facilities[f].queue # <<>>
    /\ Head(facilities[f].queue).remaining_time_to_event = 0

\* C37 as stated: of two blocked requests that release has dequeued and that
\* are yet to be dispatched, the one dequeued first stands ahead in the time
\* queue, so that cause() dispatches it first
C37_AsStated ==
    \A i, j \in 1..Len(heap.waiters) :
        i < j => Position(heap.waiters[i]) < Position(heap.waiters[j])

\* C37: ordinary waiters leave a facility queue in its order, from the head,
\* and each is put at the head of the time queue, due at the clock: the
\* blocked requests yet to be dispatched stand at the head of the time queue
\* with the one dequeued last first, and cause() dispatches the head. So
\* waiters are dispatched in facility-queue order when a cause() follows each
\* release, and in the reverse of it when several release() calls at one
\* clock value each dequeue a waiter before the next cause().
C37_WaitersDispatch ==
    /\ [](\A i \in 1..Len(heap.waiters) :
              /\ Position(heap.waiters[i]) = Len(heap.waiters) + 1 - i
              /\ event_queue[Position(heap.waiters[i])].trigger_time = clock)
    /\ [][/\ \A f \in DOMAIN facilities :
                DequeuesWaiter(f) =>
                    /\ facilities'[f].queue = Tail(facilities[f].queue)
                    /\ event_queue' =
                           <<[Head(facilities[f].queue) EXCEPT !.trigger_time = clock]>>
                               \o event_queue
          /\ (op'.name = "cause" /\ event_queue # <<>>) =>
                /\ ret' = [kind |-> "pair", a |-> Head(event_queue).event_code,
                           b |-> Head(event_queue).token]
                /\ event_queue' = Tail(event_queue)]_vars

\* two releases at one clock value have each dequeued a waiter, the one of
\* the higher priority first, and no cause() has come yet
C37_Witness ==
    /\ op.name = "release" /\ ret.kind = "None"
    /\ Len(heap.waiters) = 2
    /\ Len(event_queue) >= 2
    /\ event_queue[1].blk = heap.waiters[2]
    /\ event_queue[2].blk = heap.waiters[1]
    /\ event_queue[2].priority > event_queue[1].priority

\* C38: in every state with clock > start, U(h) is at most the number of
\* servers of h: the total busy times of the servers add up to no more than
\* the number of servers times (clock - start), also when reset() was called
\* while servers were held
C38_UtilizationBound ==
    \A h \in DOMAIN facilities :
        clock > start =>
            /\ U(Engine, h).kind = "quotient"
            /\ U(Engine, h).a <= Len(facilities[h].servers) * U(Engine, h).b

\* a server held since before reset() has been released after it: its busy
\* time is longer than the interval
C38_Witness ==
    /\ op.name = "release" /\ ret.kind = "None"
    /\ history.reset_called
    /\ \E h \in DOMAIN facilities :
          /\ U(Engine, h).kind = "quotient"
          /\ U(Engine, h).a > Len(facilities[h].servers) * U(Engine, h).b

\* the calls C39 is about
TracedCalls ==
    {"schedule", "cause", "cancel", "remevent", "unschedule", "facility",
     "request", "preempt", "release"}

\* the call c made on the engine S
Applied(c, S) ==
    CASE c.name = "schedule"   -> schedule(S, c.a, c.b, c.c)
      [] c.name = "cause"      -> cause(S)
      [] c.name = "cancel"     -> cancel(S, c.a)
      [] c.name = "remevent"   -> remevent(S, c.a)
      [] c.name = "unschedule" -> unschedule(S, c.a, c.b)
      [] c.name = "facility"   -> facility(S, NameOf(FacilityNames, c.a), c.b)
      [] c.name = "request"    -> request(S, c.a, c.b, c.c)
      [] c.name = "preempt"    -> preempt(S, c.a, c.b, c.c)
      [] c.name = "release"    -> release(S, c.a, c.b)

\* the engine S with tracing set to enabled
Tracing(S, enabled) == [S EXCEPT !.trace_enabled = enabled]

\* C39: tracing changes only the emitted text: a call of schedule, cause,
\* cancel, remevent, unschedule, facility, request, preempt or release made
\* with tracing on returns what the same call returns from the same state
\* with tracing off, and leaves the engine in the same state
C39_TraceOnlyText ==
    [][(trace_enabled /\ nops' = nops + 1 /\ op'.name \in TracedCalls) =>
          LET o == Applied(op', Tracing(Engine, FALSE))
          IN  /\ ret' = o.r
              /\ Engine' = Tracing(o.s, TRUE)]_vars

\* with tracing on, schedule() has queued its entry and raised TypeError
\* where the same call with tracing off returns None
C39_Witness ==
    /\ trace_enabled
    /\ op.name = "schedule" /\ ret.kind = "TypeError"
    /\ Len(event_queue) = 1
    /\ event_queue[1].event_code = op.a
    /\ event_queue[1].token = op.c

\* the calls that take a facility handle
HandleCalls ==
    {"fname", "request", "preempt", "release", "status", "inq", "U", "B", "Lq"}

\* init() has been called since the caller got the handle TheFacility: that
\* was under the model name "M", and the caller initializes under another
Stale == model_name # ModelNames[1]

\* C40: the handle the caller got before an init() identifies no facility
\* after it, whatever facilities or events are created afterwards: no
\* facility is registered under it, and fname, request, preempt, release,
\* status, inq, U, B and Lq given that handle fail
C40_StaleHandle ==
    /\ [](Stale => TheFacility \notin DOMAIN facilities)
    /\ [][(Stale /\ nops' = nops + 1 /\ op'.name \in HandleCalls
                 /\ op'.a = TheFacility) =>
             ret'.kind \in {"KeyError", "ValueError"}]_vars

\* after init("N") and facility("G", n), fname of the handle kept from before
\* the init() returns the name of the new facility
C40_Witness ==
    /\ Stale
    /\ op.name = "fname" /\ op.a = TheFacility
    /\ ret.kind = FacilityNames[2]
    /\ facilities[TheFacility].name = FacilityNames[2]

====
